---- MODULE Spec2Model ----
(***************************************************************************)
(* The cluster-map (Smap) ownership subsystem of ais/clustermap.go:        *)
(* the versioned snapshot smapX, its owner smapOwner (synchronize, modify, *)
(* put, get, persist) and the listeners' fan-out sls (Reg, Unreg, notify,  *)
(* run).  Writers, registering listeners and the worker goroutines are     *)
(* processes; every action is one step of the Go code between two points   *)
(* where another goroutine can observe or change shared state.             *)
(***************************************************************************)
EXTENDS Integers, Sequences, FiniteSets, TLC

(***************************************************************************)
(* Bounds of the model.                                                    *)
(***************************************************************************)
\* highest snapshot version a candidate or a clone may carry
MaxVer == 3
\* number of commits (calls of put) after which SpecOwner and the race
\* specifications start no new call
MaxCommits == 3
\* number of commits after which Spec starts no new call
MaxPosts == 2
\* number of sls.run goroutines that can be alive at the same time
MaxWorkers == 2

\* capacity of sls.postCh: make(chan int64, 8)
PostChCap == 8
\* the stop sentinel Unreg posts
Sentinel == -1

Writers == {"w1", "w2"}
Listeners == {"l1", "l2"}
WorkerIDs == 1..MaxWorkers

\* a nil pointer (to a snapshot or to a node)
Nil == [nil |-> TRUE]

(***************************************************************************)
(* Nodes and flags (package cluster and cos, consumed by clustermap.go).   *)
(***************************************************************************)
SnodeIC == "IC"
SnodeNonElectable == "NonElectable"
SnodeMaint == "Maint"
SnodeDecomm == "Decomm"
NodeFlagsMaintDecomm == {SnodeMaint, SnodeDecomm}

\* a node record: cluster.Snode reduced to identity, role and flags
Snode(id, typ, flags) == [id |-> id, typ |-> typ, flags |-> flags]
IsProxy(si) == si.typ = "proxy"
IsTarget(si) == si.typ = "target"

\* cos.IsValidUUID: "cluster-A" and "cluster-B" are well formed, the empty
\* string and "?" are not
ValidUUIDs == {"cluster-A", "cluster-B"}
IsValidUUID(u) == u \in ValidUUIDs

(***************************************************************************)
(* smapX.  Tmap and Pmap are functions from the ids present to node        *)
(* records.  Primary is a pointer: Nil, a pointer to the node object held  *)
(* by one of the two maps (PtrP, PtrT: it sees that object's flags), or a  *)
(* pointer to a node object no map holds (PtrX, which carries the object). *)
(***************************************************************************)
Smap(tmap, pmap, primary, ver, uuid) ==
    [Tmap |-> tmap, Pmap |-> pmap, Primary |-> primary, Version |-> ver, UUID |-> uuid]

EmptyMap == [x \in {} |-> Nil]

PtrP(id) == [in |-> "P", id |-> id]
PtrT(id) == [in |-> "T", id |-> id]
PtrX(node) == [in |-> "X", node |-> node]

\* the node object a non-nil pointer of snapshot m refers to
Deref(m, ptr) ==
    IF ptr.in = "P" THEN m.Pmap[ptr.id]
    ELSE IF ptr.in = "T" THEN m.Tmap[ptr.id]
    ELSE ptr.node

\* the pointer after the map entry it refers to was removed or replaced:
\* the old object lives on, outside the maps
Detach(m, kind, id) ==
    IF m.Primary # Nil /\ m.Primary.in = kind /\ m.Primary.id = id
    THEN PtrX(Deref(m, m.Primary)) ELSE m.Primary

GetTarget(m, sid) == IF sid \in DOMAIN m.Tmap THEN m.Tmap[sid] ELSE Nil
GetProxy(m, sid) == IF sid \in DOMAIN m.Pmap THEN m.Pmap[sid] ELSE Nil
GetNode(m, sid) ==
    IF GetTarget(m, sid) # Nil THEN GetTarget(m, sid) ELSE GetProxy(m, sid)

version(m) == m.Version

isPresent(m, si) ==
    IF IsProxy(si) THEN GetProxy(m, si.id) # Nil ELSE GetTarget(m, si.id) # Nil

isValid(m) ==
    IF m = Nil THEN FALSE
    ELSE IF m.Primary = Nil THEN FALSE
    ELSE isPresent(m, Deref(m, m.Primary))

\* validate with one check lost: the zero version is let through
validateNoV0(m) ==
    IF m = Nil THEN "Smap is <nil>"
    ELSE IF m.Primary = Nil THEN "Smap: primary <nil>"
    ELSE IF ~isPresent(m, Deref(m, m.Primary)) THEN "Smap: primary not present"
    ELSE IF ~IsValidUUID(m.UUID) THEN "Smap: invalid UUID"
    ELSE "nil"

\* the error validate returns, "nil" for none
validate(m) ==
    IF m = Nil THEN "Smap is <nil>"
    ELSE IF version(m) = 0 THEN "Smap v0"
    ELSE IF m.Primary = Nil THEN "Smap: primary <nil>"
    ELSE IF ~isPresent(m, Deref(m, m.Primary)) THEN "Smap: primary not present"
    ELSE IF ~IsValidUUID(m.UUID) THEN "Smap: invalid UUID"
    ELSE "nil"

MapPut(f, k, v) == [x \in (DOMAIN f) \cup {k} |-> IF x = k THEN v ELSE f[x]]
MapDel(f, k) == [x \in (DOMAIN f) \ {k} |-> f[x]]

\* a fatal assertion (cos.Assertf) or a nil dereference: the operation panics
Fatal == [fatal |-> TRUE]

\* addTarget that looks for the id among the targets only
addTargetOwnMap(m, tsi) ==
    IF GetTarget(m, tsi.id) # Nil THEN Fatal
    ELSE [m EXCEPT !.Tmap = MapPut(m.Tmap, tsi.id, tsi), !.Version = m.Version + 1]

addTarget(m, tsi) ==
    IF GetNode(m, tsi.id) # Nil THEN Fatal
    ELSE [m EXCEPT !.Tmap = MapPut(m.Tmap, tsi.id, tsi), !.Version = m.Version + 1]

\* addProxy that makes the first proxy of a snapshot its primary
addProxyAsPrimary(m, psi) ==
    IF GetNode(m, psi.id) # Nil THEN Fatal
    ELSE [m EXCEPT !.Pmap = MapPut(m.Pmap, psi.id, psi), !.Version = m.Version + 1,
                   !.Primary = IF m.Primary = Nil THEN PtrP(psi.id) ELSE m.Primary]

addProxy(m, psi) ==
    IF GetNode(m, psi.id) # Nil THEN Fatal
    ELSE [m EXCEPT !.Pmap = MapPut(m.Pmap, psi.id, psi), !.Version = m.Version + 1]

delTarget(m, sid) ==
    IF GetTarget(m, sid) = Nil THEN Fatal
    ELSE [m EXCEPT !.Tmap = MapDel(m.Tmap, sid), !.Primary = Detach(m, "T", sid),
                   !.Version = m.Version + 1]

delProxy(m, pid) ==
    IF GetProxy(m, pid) = Nil THEN Fatal
    ELSE [m EXCEPT !.Pmap = MapDel(m.Pmap, pid), !.Primary = Detach(m, "P", pid),
                   !.Version = m.Version + 1]

\* putNode, lines 292-295 and 302-305: exists, the id was there under the role
\* of the new node
putNodeExists(m, nsi) ==
    IF IsProxy(nsi) THEN GetProxy(m, nsi.id) # Nil ELSE GetTarget(m, nsi.id) # Nil

\* putNode: the snapshot after the upsert (Fatal when an assertion fires)
putNode(m, nsi0, flags) ==
    LET nsi == [nsi0 EXCEPT !.flags = flags] IN
    IF IsProxy(nsi) THEN
        IF GetProxy(m, nsi.id) # Nil THEN addProxy(delProxy(m, nsi.id), nsi)
        ELSE addProxy(m, nsi)
    ELSE
        IF GetTarget(m, nsi.id) # Nil THEN addTarget(delTarget(m, nsi.id), nsi)
        ELSE addTarget(m, nsi)

\* _applyFlags counting a version only when the flags change
_applyFlagsIfChanged(m, si, newFlags) ==
    LET nsi == [si EXCEPT !.flags = newFlags]
        v == IF newFlags = si.flags THEN m.Version ELSE m.Version + 1 IN
    IF IsTarget(si)
    THEN [m EXCEPT !.Tmap = MapPut(m.Tmap, si.id, nsi), !.Version = v]
    ELSE [m EXCEPT !.Pmap = MapPut(m.Pmap, si.id, nsi), !.Version = v]

\* si is the object GetNode found: its flags change in place, and the map
\* of its role is made to hold it
_applyFlags(m, si, newFlags) ==
    LET nsi == [si EXCEPT !.flags = newFlags] IN
    IF IsTarget(si)
    THEN [m EXCEPT !.Tmap = MapPut(m.Tmap, si.id, nsi), !.Version = m.Version + 1]
    ELSE [m EXCEPT !.Pmap = MapPut(m.Pmap, si.id, nsi), !.Version = m.Version + 1]

setNodeFlags(m, sid, flags) ==
    LET si == GetNode(m, sid)
        set == si.flags \cup flags
        newFlags == IF flags \cap NodeFlagsMaintDecomm # {} THEN set \ {SnodeIC} ELSE set
    IN  IF si = Nil THEN Fatal ELSE _applyFlags(m, si, newFlags)

clearNodeFlags(m, id, flags) ==
    LET si == GetNode(m, id)
    IN  IF si = Nil THEN Fatal ELSE _applyFlags(m, si, si.flags \ flags)

\* clone: a deep copy whose Primary points to the copy's own proxy record
\* with the primary's id (nil when the proxy map holds none)
clone(m) ==
    IF m = Nil \/ m.Primary = Nil THEN Fatal
    ELSE LET pid == Deref(m, m.Primary).id IN
         [m EXCEPT !.Primary = IF pid \in DOMAIN m.Pmap THEN PtrP(pid) ELSE Nil]

\* validateUUID without the tolerance of a version-0 snapshot
validateUUIDNoV0(m, n) ==
    IF m = Nil \/ n = Nil THEN "nil"
    ELSE IF ~IsValidUUID(m.UUID) \/ ~IsValidUUID(n.UUID) THEN "nil"
    ELSE IF m.UUID = n.UUID THEN "nil"
    ELSE "errSmapUUIDDiffer"

\* validateUUID, lines 382-400: the error it returns for receiver m and
\* argument n (newSmap), "nil" for none
validateUUID(m, n) ==
    IF m = Nil \/ n = Nil THEN "nil"
    ELSE IF n.Version = 0 THEN "nil"
    ELSE IF ~IsValidUUID(m.UUID) \/ ~IsValidUUID(n.UUID) THEN "nil"
    ELSE IF m.UUID = n.UUID THEN "nil"
    ELSE "errSmapUUIDDiffer"

\* the ids of node objects a clone holds in common with the snapshot it was
\* made from, were the nodes put into the new maps as they are
cloneSharedAll(m) == (DOMAIN m.Tmap) \cup (DOMAIN m.Pmap)

\* clone, lines 317-322: every node of the new maps is v.Clone(), a node
\* object of the clone's own: it has none in common with m
cloneShared(m) == {}

\* newSmap, lines 145-154: version 0, empty maps, no primary, no uuid
NewSmap == Smap(EmptyMap, EmptyMap, Nil, 0, "")

(***************************************************************************)
(* The information committee.  Go ranges over a map in an order of its     *)
(* own choosing, so _fillIC, evictIC and staffIC yield the set of the      *)
(* snapshots they can leave behind.                                        *)
(***************************************************************************)
\* cluster.DefaultICSize
DefaultICSize == 3

\* cluster.Smap.ICCount: the proxies flagged as IC members
ICCount(m) == Cardinality({id \in DOMAIN m.Pmap : SnodeIC \in m.Pmap[id].flags})

\* cluster.Smap.IsIC: the proxy with psi's id is flagged as IC member
IsIC(m, psi) == GetProxy(m, psi.id) # Nil /\ SnodeIC \in GetProxy(m, psi.id).flags

addIC(m, psi) ==
    IF ~IsIC(m, psi) THEN setNodeFlags(m, psi.id, {SnodeIC}) ELSE m

\* the committee taken as staffed one member early
icFullEarly(m) == ICCount(m) >= DefaultICSize - 1

\* _fillIC, lines 157 and 167: the committee is staffed
icFull(m) == ICCount(m) >= DefaultICSize

\* _fillIC, lines 162-169: the loop over the proxies not visited yet
RECURSIVE fillLoop(_, _)
fillLoop(m, todo) ==
    IF todo = {} THEN {m}
    ELSE UNION { IF SnodeNonElectable \in m.Pmap[id].flags
                 THEN fillLoop(m, todo \ {id})
                 ELSE UNION { IF icFull(a) THEN {a} ELSE fillLoop(a, todo \ {id})
                            : a \in {addIC(m, m.Pmap[id])} }
               : id \in todo }

_fillIC(m) == IF icFull(m) THEN {m} ELSE fillLoop(m, DOMAIN m.Pmap)

\* the committee taken as within its size with one member too many
icWithinMaxLoose(m) == ICCount(m) <= DefaultICSize + 1

\* evictIC, line 184: the committee does not exceed its size
icWithinMax(m) == ICCount(m) <= DefaultICSize

\* evictIC, lines 183-194: the first IC member the loop meets that is not the
\* primary loses its flag; the loop ends there
evictIC(m) ==
    IF icWithinMax(m) THEN {m}
    ELSE IF m.Primary = Nil THEN {Fatal}
    ELSE LET pid == Deref(m, m.Primary).id
             V == {sid \in DOMAIN m.Pmap : sid # pid /\ IsIC(m, m.Pmap[sid])}
         IN IF V = {} THEN {m} ELSE {clearNodeFlags(m, sid, {SnodeIC}) : sid \in V}

\* a pointer to a copy of the node instead of the map's own entry
NodePtrCopy(m, sid) ==
    IF sid \in DOMAIN m.Tmap THEN PtrX(m.Tmap[sid])
    ELSE IF sid \in DOMAIN m.Pmap THEN PtrX(m.Pmap[sid]) ELSE Nil

\* the pointer GetNode returns for sid: into Tmap first, else into Pmap
NodePtr(m, sid) ==
    IF sid \in DOMAIN m.Tmap THEN PtrT(sid)
    ELSE IF sid \in DOMAIN m.Pmap THEN PtrP(sid) ELSE Nil

\* staffIC, lines 174-179
staffIC(m) ==
    IF m.Primary = Nil THEN {Fatal}
    ELSE UNION { IF a = Fatal THEN {Fatal}
                 ELSE UNION { UNION { evictIC(f) : f \in _fillIC(b) }
                            : b \in {[a EXCEPT !.Primary = NodePtr(a, Deref(m, m.Primary).id)]} }
               : a \in {addIC(m, Deref(m, m.Primary))} }

(***************************************************************************)
(* merge.  Every node has the URL of its id; IsDuplicate (package cluster) *)
(* finds a node of the snapshot with another id and the same URL.  The     *)
(* loops range over maps, so merge yields the set of its outcomes:         *)
(* [dst: the destination afterwards, added, err].                          *)
(***************************************************************************)
\* the URL of the node with this id: a2 and b2 are one address under two ids
URLOf(id) == IF id \in {"a2", "b2"} THEN "http://10.0.0.2" ELSE id

\* cluster.Smap.IsDuplicate: the nodes it can report for nsi, targets first
IsDuplicate(m, nsi) ==
    LET td == {m.Tmap[x] : x \in {y \in DOMAIN m.Tmap : y # nsi.id /\ URLOf(y) = URLOf(nsi.id)}}
        pd == {m.Pmap[x] : x \in {y \in DOMAIN m.Pmap : y # nsi.id /\ URLOf(y) = URLOf(nsi.id)}}
    IN IF td # {} THEN td ELSE pd

\* handleDuplicateNode, lines 362-380: the outcomes [m, err]
handleDuplicateNode(m, nsi, del) ==
    IF IsDuplicate(m, nsi) = {} THEN {[m |-> m, err |-> "nil"]}
    ELSE IF ~del THEN {[m |-> m, err |-> "errDuplicate"]}
    ELSE {[m |-> IF IsProxy(osi) THEN delProxy(m, osi.id) ELSE delTarget(m, osi.id),
           err |-> "nil"] : osi \in IsDuplicate(m, nsi)}

\* merge, lines 334-339 and 346-351: the node goes into the map of its loop
\* unless its id is in one of dst's maps
mergeNode(dst, si, kind) ==
    IF si.id \in DOMAIN dst.Tmap \/ si.id \in DOMAIN dst.Pmap THEN dst
    ELSE IF kind = "T" THEN [dst EXCEPT !.Tmap = MapPut(dst.Tmap, si.id, si)]
    ELSE [dst EXCEPT !.Pmap = MapPut(dst.Pmap, si.id, si)]

\* the ids in the maps of a snapshot
mapIds(m) == (DOMAIN m.Tmap) \cup (DOMAIN m.Pmap)

\* one loop of merge over the nodes (of m.Tmap or of m.Pmap) not visited yet.
\* ins: the ids under which dst holds a node object of the source, put there
\* by line 336 or 348 and not evicted since; gone: the ids whose entry
\* handleDuplicateNode deleted from dst
RECURSIVE mergeLoop(_, _, _, _, _, _, _)
mergeLoop(dst, todo, kind, override, added, ins, gone) ==
    IF todo = {} THEN {[dst |-> dst, added |-> added, err |-> "nil", ins |-> ins, gone |-> gone]}
    ELSE UNION { UNION { IF h.err # "nil"
                         THEN {[dst |-> h.m, added |-> added, err |-> h.err,
                                ins |-> ins, gone |-> gone]}
                         ELSE LET d == mergeNode(h.m, si, kind)
                                  ev == mapIds(dst) \ mapIds(h.m) IN
                              mergeLoop(d, todo \ {si}, kind, override,
                                        IF d = h.m THEN added ELSE added + 1,
                                        IF d = h.m THEN ins \ ev ELSE (ins \ ev) \cup {si.id},
                                        gone \cup ev)
                       : h \in handleDuplicateNode(dst, si, override) }
               : si \in todo }

\* merge with the loop over m.Pmap left out
mergeTargetsOnly(m, dst, override) ==
    mergeLoop(dst, {m.Tmap[x] : x \in DOMAIN m.Tmap}, "T", override, 0, {}, {})

\* merge adopting the uuid before its loops instead of after them
mergeAdoptFirst(m, dst, override) ==
    LET d0 == IF m.UUID # "" /\ dst.UUID = "" THEN [dst EXCEPT !.UUID = m.UUID] ELSE dst IN
    UNION { IF t.err # "nil" THEN {t}
            ELSE mergeLoop(t.dst, {m.Pmap[x] : x \in DOMAIN m.Pmap}, "P", override,
                           t.added, t.ins, t.gone)
          : t \in mergeLoop(d0, {m.Tmap[x] : x \in DOMAIN m.Tmap}, "T", override, 0, {}, {}) }

\* merge, lines 328-358: the outcomes [dst, added, err], with the ids whose
\* node object dst now has in common with m (ins) and the ids evicted (gone)
merge(m, dst, override) ==
    UNION { IF t.err # "nil" THEN {t}
            ELSE { IF p.err = "nil" /\ m.UUID # "" /\ p.dst.UUID = ""
                   THEN [p EXCEPT !.dst.UUID = m.UUID] ELSE p
                 : p \in mergeLoop(t.dst, {m.Pmap[x] : x \in DOMAIN m.Pmap}, "P",
                                   override, t.added, t.ins, t.gone) }
          : t \in mergeLoop(dst, {m.Tmap[x] : x \in DOMAIN m.Tmap}, "T", override, 0, {}, {}) }

\* the ids of the node objects dst and the source have in common after the
\* merge with outcome r, sh being those they had in common before
mergeShared(sh, r) == (sh \ r.gone) \cup r.ins

(***************************************************************************)
(* Encoding (package jsp): the persisted form holds the maps, the primary  *)
(* node, the version and the uuid; decoding builds the primary as a node   *)
(* object of its own.                                                      *)
(***************************************************************************)
_encode(m) ==
    [jsp |-> [Tmap |-> m.Tmap, Pmap |-> m.Pmap,
              Primary |-> IF m.Primary = Nil THEN Nil ELSE Deref(m, m.Primary),
              Version |-> m.Version, UUID |-> m.UUID]]

Decode(b) ==
    Smap(b.jsp.Tmap, b.jsp.Pmap,
         IF b.jsp.Primary = Nil THEN Nil ELSE PtrX(b.jsp.Primary),
         b.jsp.Version, b.jsp.UUID)

(***************************************************************************)
(* The inputs the callers supply.                                          *)
(***************************************************************************)
\* the local node (the si argument of synchronize): target t1
SelfID == "t1"

P1 == Snode("p1", "proxy", {SnodeIC})
P2 == Snode("p2", "proxy", {})
T1(flags) == Snode("t1", "target", flags)
T2 == Snode("t2", "target", {})

\* two cluster maps a peer may send with version v: they differ in their
\* members and in the flags they record for the local node
CandA(v) == Smap([x \in {"t1"} |-> T1({})], [x \in {"p1"} |-> P1],
                 PtrX(P1), v, "cluster-A")
CandB(v) == Smap([x \in {"t1"} |-> T1({SnodeMaint})],
                 [x \in {"p1", "p2"} |-> IF x = "p1" THEN P1 ELSE P2],
                 PtrX(P1), v, "cluster-A")

ValidCands == {CandA(v) : v \in 1..MaxVer} \cup {CandB(v) : v \in 1..MaxVer}

\* candidates validate must refuse: nil, version 0, no primary, a primary
\* that is not in the map of its role, a malformed uuid
InvalidCands ==
    { Nil,
      CandA(0),
      [CandA(MaxVer) EXCEPT !.Primary = Nil],
      [CandA(MaxVer) EXCEPT !.Primary = PtrX(P2)],
      [CandB(MaxVer) EXCEPT !.UUID = ""] }

Cands == ValidCands \cup InvalidCands

\* msPayload: nil, a payload without the Smap tag, or the sender's bytes of
\* the candidate
Payloads == {"nil", "notag", "bytes"}

\* the snapshot the node's startup code publishes first
StartSmaps == {CandA(1)}

\* what a caller's pre callback does to the clone
PreOps == {"noop", "fail", "putNode", "setNodeFlags", "delProxy"}

\* the clone after pre: Fatal when an assertion fires
RunPreOp(preop, c) ==
    IF preop = "putNode" THEN putNode(c, T2, {})
    ELSE IF preop = "setNodeFlags" THEN setNodeFlags(c, SelfID, {SnodeMaint})
    ELSE IF preop = "delProxy" THEN delProxy(c, "p2")
    ELSE IF preop \in {"delPrimary", "putPrimary"} /\ c.Primary = Nil THEN Fatal
    ELSE IF preop = "delPrimary" THEN delProxy(c, Deref(c, c.Primary).id)
    ELSE IF preop = "putPrimary" THEN putNode(c, Snode(Deref(c, c.Primary).id, "proxy", {}), {})
    ELSE c

(***************************************************************************)
(* State.                                                                  *)
(***************************************************************************)
VARIABLES
    smap,       \* smapOwner.smap: the published snapshot, Nil before the first put
    mu,         \* smapOwner.mu: the writer holding it, or "none"
    file,       \* the file at smapOwner.fpath: Nil, or the bytes last saved
    siFlags,    \* si.Flags of the local node
    pc,         \* where each writer is
    op,         \* the call each writer is in or has returned from: "none", "put", "sync", "modify"
    newSmap,    \* synchronize's newSmap, _runPre's clone (Nil outside a call)
    err,        \* the error the last call returned ("nil": none, "-": no result yet)
    listeners,  \* sls.listeners
    postCh,     \* sls.postCh
    running,    \* sls.running
    wg,         \* sls.wg
    slsmu,      \* sls.mu: [w: the listener whose Reg/Unreg holds it, or "none"; r: the workers read-holding it]
    lpc,        \* where each listener's Reg/Unreg is
    wpc,        \* where each sls.run goroutine is ("none": not alive)
    wver,       \* the ver a worker has received
    commits,    \* history: one record per put
    cseq,       \* history: the index in commits of each writer's put
    postTag,    \* history: the index in commits of each entry of postCh (0 for a sentinel)
    wtag,       \* history: the index in commits of wver
    last,       \* history: the version of the latest callback of each listener (0: none yet)
    snap,       \* a snapshot in the hands of one caller, not published: the one it edits
    orig,       \* the other snapshot the caller holds: the one snap was cloned from, or
                \* the receiver of merge; Nil when there is none
    shared,     \* the ids of the node objects that snap and orig have in common
    lastOp      \* the smapX method last called on snap and how it ended

nodeVars == <<smap, mu, file, siFlags, pc, op, newSmap, err,
              listeners, postCh, running, wg, slsmu, lpc, wpc, wver,
              commits, cseq, postTag, wtag, last>>
snapVars == <<snap, orig, shared, lastOp>>
vars == <<nodeVars, snapVars>>

ownerVars == <<smap, mu, file, siFlags>>
writerVars == <<pc, op, newSmap, err, cseq>>
slsVars == <<listeners, postCh, running, wg, slsmu, lpc, wpc, wver, postTag, wtag, last>>

\* no caller holds a snapshot of its own
NoSnap ==
    /\ snap = Nil
    /\ orig = Nil
    /\ shared = {}
    /\ lastOp = [name |-> "none", ret |-> "nil"]

\* the node as constructed: no snapshot published, nobody registered
Constructed ==
    /\ smap = Nil
    /\ mu = "none"
    /\ file = Nil
    /\ siFlags = {}
    /\ pc = [w \in Writers |-> "idle"]
    /\ op = [w \in Writers |-> "none"]
    /\ newSmap = [w \in Writers |-> Nil]
    /\ err = [w \in Writers |-> "-"]
    /\ listeners = {}
    /\ postCh = <<>>
    /\ running = FALSE
    /\ wg = 0
    /\ slsmu = [w |-> "none", r |-> {}]
    /\ lpc = [l \in Listeners |-> "out"]
    /\ wpc = [k \in WorkerIDs |-> "none"]
    /\ wver = [k \in WorkerIDs |-> 0]
    /\ commits = <<>>
    /\ cseq = [w \in Writers |-> 0]
    /\ postTag = <<>>
    /\ wtag = [k \in WorkerIDs |-> 0]
    /\ last = [l \in Listeners |-> 0]

Init == Constructed /\ NoSnap

(***************************************************************************)
(* Writers: synchronize, modify and the startup code's first put.  An      *)
(* input a call only reads at a later step (the payload, the callbacks of  *)
(* ctx) is drawn at that step.  A call that returns leaves its error in    *)
(* err and forgets its locals.                                             *)
(***************************************************************************)
Resting == {"idle", "done", "panic"}
\* a call that has not reached put's Store yet
BeforeStore == {"s_validate", "s_lock", "s_persist", "m_lock", "m_persist", "put"}

\* a writer may start a call
CanCall(w) == pc[w] = "idle"

\* fewer than n commits have been made or can still be made by the calls in
\* progress (a specification stops starting calls at its bound)
Budget(n) ==
    Len(commits) + Cardinality({x \in Writers : pc[x] \in BeforeStore}) < n

\* the listeners whose Reg has returned and whose Unreg has not been called
Registered == {l \in Listeners : lpc[l] = "in"}

\* sync.Mutex.Lock taken without waiting for the holder
mutexFreeNoWait == TRUE

\* r.mu.Lock() can proceed
mutexFree == mu = "none"

\* the call of writer w returns e
Return(w, e) ==
    /\ pc' = [pc EXCEPT ![w] = "done"]
    /\ err' = [err EXCEPT ![w] = e]
    /\ newSmap' = [newSmap EXCEPT ![w] = Nil]
    /\ cseq' = [cseq EXCEPT ![w] = 0]

\* writer w panics (a fatal assertion, a nil dereference)
Panic(w) ==
    /\ pc' = [pc EXCEPT ![w] = "panic"]
    /\ err' = [err EXCEPT ![w] = "panic"]
    /\ newSmap' = [newSmap EXCEPT ![w] = Nil]
    /\ cseq' = [cseq EXCEPT ![w] = 0]

\* writer w goes on to step p of its call
Goto(w, p) ==
    /\ pc' = [pc EXCEPT ![w] = p]
    /\ UNCHANGED <<err, newSmap, cseq>>

\* the startup code publishes the node's first snapshot: r.put(smap)
StartupPut(w, m) ==
    /\ smap = Nil
    /\ CanCall(w)
    /\ \A x \in Writers : ~(op[x] = "put" /\ pc[x] \notin Resting)
    /\ op' = [op EXCEPT ![w] = "put"]
    /\ newSmap' = [newSmap EXCEPT ![w] = m]
    /\ pc' = [pc EXCEPT ![w] = "put"]
    /\ UNCHANGED <<ownerVars, err, slsVars, commits, cseq>>
    /\ UNCHANGED snapVars

\* the call synchronize(si, m, payload)
synchronize(w, m) ==
    /\ CanCall(w)
    /\ op' = [op EXCEPT ![w] = "sync"]
    /\ newSmap' = [newSmap EXCEPT ![w] = m]
    /\ pc' = [pc EXCEPT ![w] = "s_validate"]
    /\ UNCHANGED <<ownerVars, err, cseq, slsVars, commits>>
    /\ UNCHANGED snapVars

\* synchronize, lines 477-480: an invalid candidate is returned with its error
SyncValidate(w) ==
    /\ pc[w] = "s_validate"
    /\ IF validate(newSmap[w]) # "nil"
       THEN Return(w, validate(newSmap[w]))
       ELSE Goto(w, "s_lock")
    /\ UNCHANGED <<ownerVars, op, slsVars, commits>>
    /\ UNCHANGED snapVars

\* the reconciliation left out: the local node keeps its flags
reconcileKeep(m, flags) == flags

\* the flags of the local node after synchronize's reconciliation
reconcile(m, flags) ==
    LET nsi == GetNode(m, SelfID) IN
    IF nsi # Nil /\ flags # nsi.flags THEN nsi.flags ELSE flags

\* the version test taken as "not newer" only when strictly older
notNewerStrict(newVer, cur) == newVer < cur

\* synchronize, line 489: the candidate is not newer than the current snapshot
notNewer(newVer, cur) == newVer <= cur

\* the error for a candidate that is not newer, raised for equal versions too
notNewerErrAlways(newVer, cur) == "errDowngrade"

\* the error for a candidate that is not newer, never raised
notNewerErrNone(newVer, cur) == "nil"

\* synchronize, lines 490-493: the error for a candidate that is not newer
notNewerErr(newVer, cur) == IF newVer < cur THEN "errDowngrade" ELSE "nil"

\* synchronize, lines 481-497: lock, read the current snapshot, reconcile the
\* local node's flags, compare the versions
SyncLock(w) ==
    /\ pc[w] = "s_lock"
    /\ mutexFree
    /\ IF smap = Nil
       THEN \* r.Get() takes the address of a field of a nil *smapX
            /\ mu' = w
            /\ Panic(w)
            /\ UNCHANGED siFlags
       ELSE /\ siFlags' = reconcile(newSmap[w], siFlags)
            /\ IF notNewer(version(newSmap[w]), smap.Version)
               THEN /\ Return(w, notNewerErr(version(newSmap[w]), smap.Version))
                    /\ mu' = "none"
               ELSE /\ mu' = w
                    /\ Goto(w, "s_persist")
    /\ UNCHANGED <<smap, file, op, slsVars, commits>>
    /\ UNCHANGED snapVars

\* persistBytes: done iff the payload holds the Smap bytes and saving them succeeds
persistBytes(pl, okBytes) == pl = "bytes" /\ okBytes

\* synchronize going on to put whatever persist returned
afterPersistAlways(saved) == "put"

\* where synchronize goes after lines 498-500: to put, or to the unlock with the error
afterPersist(saved) == IF saved THEN "put" ELSE "s_unlock"

\* synchronize, lines 498-500: save the payload's bytes, else encode and save
SyncPersist(w, pl, okBytes, okEnc) ==
    /\ pc[w] = "s_persist"
    /\ LET done == persistBytes(pl, okBytes)
           saved == done \/ okEnc
       IN /\ file' = IF done THEN [bytes |-> _encode(newSmap[w]), via |-> "payload"]
                     ELSE IF okEnc THEN [bytes |-> _encode(newSmap[w]), via |-> "encode"]
                     ELSE file
          /\ err' = [err EXCEPT ![w] = IF saved THEN "-" ELSE "errPersist"]
          /\ pc' = [pc EXCEPT ![w] = afterPersist(saved)]
    /\ UNCHANGED <<smap, mu, siFlags, op, newSmap, cseq, slsVars, commits>>
    /\ UNCHANGED snapVars

\* put, lines 466-468: the atomic store of the new snapshot
PutStore(w) ==
    /\ pc[w] = "put"
    /\ smap' = newSmap[w]
    /\ commits' = Append(commits, [ver |-> version(newSmap[w]), by |-> op[w],
                                   ls |-> Registered, got |-> {}])
    /\ cseq' = [cseq EXCEPT ![w] = Len(commits) + 1]
    /\ pc' = [pc EXCEPT ![w] = "notify"]
    /\ UNCHANGED <<mu, file, siFlags, op, newSmap, err, slsVars>>
    /\ UNCHANGED snapVars

\* the caller of put continues: synchronize and _runPre go on, the startup
\* code's put has returned
AfterPut(w) ==
    IF op[w] = "sync" THEN Goto(w, "s_unlock")
    ELSE IF op[w] = "modify" THEN Goto(w, "m_post")
    ELSE Return(w, "nil")

\* notify, line 640: post the version only if the worker is running
notify(w) ==
    /\ pc[w] = "notify"
    /\ IF running THEN Goto(w, "send") ELSE AfterPut(w)
    /\ UNCHANGED <<ownerVars, op, slsVars, commits>>
    /\ UNCHANGED snapVars

\* notify, line 641: sls.postCh <- ver (waits while the channel is full)
NotifySend(w) ==
    /\ pc[w] = "send"
    /\ Len(postCh) < PostChCap
    /\ postCh' = Append(postCh, version(newSmap[w]))
    /\ postTag' = Append(postTag, cseq[w])
    /\ AfterPut(w)
    /\ UNCHANGED <<ownerVars, op, listeners, running, wg, slsmu, lpc, wpc, wver, wtag, last,
                   commits>>
    /\ UNCHANGED snapVars

\* synchronize, lines 504-505: unlock and return err
SyncUnlock(w) ==
    /\ pc[w] = "s_unlock"
    /\ mu' = "none"
    /\ Return(w, IF err[w] = "-" THEN "nil" ELSE err[w])
    /\ UNCHANGED <<smap, file, siFlags, op, slsVars, commits>>
    /\ UNCHANGED snapVars

\* modify: the call of _runPre
modify(w) ==
    /\ CanCall(w)
    /\ op' = [op EXCEPT ![w] = "modify"]
    /\ pc' = [pc EXCEPT ![w] = "m_lock"]
    /\ UNCHANGED <<ownerVars, newSmap, err, cseq, slsVars, commits>>
    /\ UNCHANGED snapVars

\* _runPre going on to persist whatever pre returned
afterPreAlways(failed) == "m_persist"

\* _runPre, lines 545-547: pre's error ends the transaction
afterPre(failed) == IF failed THEN "done" ELSE "m_persist"

\* _runPre, lines 541-549: lock, clone the current snapshot, run pre on the
\* clone, encode it.  The deferred Unlock runs on every way out.
RunPreLock(w, preop) ==
    /\ pc[w] = "m_lock"
    /\ mutexFree
    /\ LET cl == clone(smap)
           res == IF cl = Fatal THEN Fatal ELSE RunPreOp(preop, cl)
           failed == preop = "fail"
           next == afterPre(failed)
       IN IF res = Fatal
          THEN Panic(w) /\ UNCHANGED mu
          ELSE /\ res.Version <= MaxVer
               /\ pc' = [pc EXCEPT ![w] = next]
               /\ err' = [err EXCEPT ![w] = IF failed THEN "errPre" ELSE err[w]]
               /\ newSmap' = [newSmap EXCEPT ![w] = IF next = "done" THEN Nil ELSE res]
               /\ mu' = IF next = "done" THEN "none" ELSE w
               /\ UNCHANGED cseq
    /\ UNCHANGED <<smap, file, siFlags, op, slsVars, commits>>
    /\ UNCHANGED snapVars

\* _runPre publishing the clone whatever persist returned
afterRunPrePersistAlways(ok) == "put"

\* _runPre, lines 550-553: a failed persist ends the transaction
afterRunPrePersist(ok) == IF ok THEN "put" ELSE "done"

\* _runPre, lines 550-553: persist the clone
RunPrePersist(w, ok) ==
    /\ pc[w] = "m_persist"
    /\ LET next == afterRunPrePersist(ok) IN
       /\ file' = IF ok THEN [bytes |-> _encode(newSmap[w]), via |-> "encode"] ELSE file
       /\ err' = [err EXCEPT ![w] = IF ok THEN err[w] ELSE "errFailedToPersist"]
       /\ pc' = [pc EXCEPT ![w] = next]
       /\ newSmap' = [newSmap EXCEPT ![w] = IF next = "done" THEN Nil ELSE newSmap[w]]
       /\ mu' = IF next = "done" THEN "none" ELSE mu
    /\ UNCHANGED <<smap, siFlags, op, cseq, slsVars, commits>>
    /\ UNCHANGED snapVars

\* _runPre, lines 558-560: post (if any), with the mutex held
RunPrePost(w) ==
    /\ pc[w] = "m_post"
    /\ Goto(w, "m_unlock")
    /\ UNCHANGED <<ownerVars, op, slsVars, commits>>
    /\ UNCHANGED snapVars

\* _runPre returning with the mutex still held by the writer
deferredUnlockMissing(w) == w

\* _runPre, line 542: defer r.mu.Unlock(): the holder of the mutex after the return
deferredUnlock(w) == "none"

\* _runPre, line 561: return, the deferred Unlock
RunPreUnlock(w) ==
    /\ pc[w] = "m_unlock"
    /\ mu' = deferredUnlock(w)
    /\ Goto(w, "m_final")
    /\ UNCHANGED <<smap, file, siFlags, op, slsVars, commits>>
    /\ UNCHANGED snapVars

\* modify, lines 569-572: final (if any), then return nil
ModifyFinal(w) ==
    /\ pc[w] = "m_final"
    /\ Return(w, "nil")
    /\ UNCHANGED <<ownerVars, op, slsVars, commits>>
    /\ UNCHANGED snapVars

\* the caller is done with the result: the writer is free for another call
Finish(w) ==
    /\ pc[w] = "done"
    /\ pc' = [pc EXCEPT ![w] = "idle"]
    /\ op' = [op EXCEPT ![w] = "none"]
    /\ err' = [err EXCEPT ![w] = "-"]
    /\ UNCHANGED <<ownerVars, newSmap, cseq, slsVars, commits>>
    /\ UNCHANGED snapVars

(***************************************************************************)
(* sls: Reg, Unreg and the worker goroutine sls.run.                       *)
(***************************************************************************)
\* sls.mu.Lock() can proceed
slsUnlocked == slsmu.w = "none" /\ slsmu.r = {}

\* a worker that is not alive, for the goroutine Reg starts
FreeWorker == CHOOSE k \in WorkerIDs : wpc[k] = "none" /\ \A j \in WorkerIDs : wpc[j] = "none" => k <= j

\* Reg, lines 614-620: lock, insert; the first listener starts the worker
Reg(l) ==
    /\ lpc[l] = "out"
    /\ slsUnlocked
    /\ listeners' = listeners \cup {l}
    /\ IF Cardinality(listeners \cup {l}) = 1
       THEN /\ \E k \in WorkerIDs : wpc[k] = "none"
            /\ wg' = wg + 1
            /\ wpc' = [wpc EXCEPT ![FreeWorker] = "drain"]
            /\ slsmu' = [slsmu EXCEPT !.w = l]
            /\ lpc' = [lpc EXCEPT ![l] = "reg"]
       ELSE /\ lpc' = [lpc EXCEPT ![l] = "in"]
            /\ UNCHANGED <<wg, wpc, slsmu>>
    /\ UNCHANGED <<ownerVars, writerVars, postCh, running, wver, postTag, wtag, last, commits>>
    /\ UNCHANGED snapVars

\* Reg, lines 621-623: wg.Wait(), unlock
RegWait(l) ==
    /\ lpc[l] = "reg"
    /\ wg = 0
    /\ slsmu' = [slsmu EXCEPT !.w = "none"]
    /\ lpc' = [lpc EXCEPT ![l] = "in"]
    /\ UNCHANGED <<ownerVars, writerVars, listeners, postCh, running, wg, wpc, wver,
                   postTag, wtag, last, commits>>
    /\ UNCHANGED snapVars

\* Unreg, lines 627-632: lock, delete; the last listener stops the worker
Unreg(l) ==
    /\ lpc[l] = "in"
    /\ slsUnlocked
    /\ listeners' = listeners \ {l}
    /\ IF listeners \ {l} = {}
       THEN /\ running' = FALSE
            /\ slsmu' = [slsmu EXCEPT !.w = l]
            /\ lpc' = [lpc EXCEPT ![l] = "unreg"]
       ELSE /\ lpc' = [lpc EXCEPT ![l] = "out"]
            /\ UNCHANGED <<running, slsmu>>
    /\ UNCHANGED <<ownerVars, writerVars, postCh, wg, wpc, wver, postTag, wtag, last, commits>>
    /\ UNCHANGED snapVars

\* Unreg, lines 633-635: post the sentinel (waits while the channel is full), unlock
UnregSend(l) ==
    /\ lpc[l] = "unreg"
    /\ Len(postCh) < PostChCap
    /\ postCh' = Append(postCh, Sentinel)
    /\ postTag' = Append(postTag, 0)
    /\ slsmu' = [slsmu EXCEPT !.w = "none"]
    /\ lpc' = [lpc EXCEPT ![l] = "out"]
    /\ UNCHANGED <<ownerVars, writerVars, listeners, running, wg, wpc, wver, wtag, last, commits>>
    /\ UNCHANGED snapVars

\* run, lines 589 and 607: the test of a drain loop
WorkerDrain(k) ==
    /\ wpc[k] \in {"drain", "drain2"}
    /\ wpc' = [wpc EXCEPT ![k] =
                 IF Len(postCh) > 0 THEN (IF wpc[k] = "drain" THEN "drain_rcv" ELSE "drain2_rcv")
                 ELSE IF wpc[k] = "drain" THEN "wgdone" ELSE "none"]
    /\ UNCHANGED <<ownerVars, writerVars, listeners, postCh, running, wg, slsmu, lpc, wver,
                   postTag, wtag, last, commits>>
    /\ UNCHANGED snapVars

\* run, lines 590 and 608: the receive of a drain loop (it waits for an entry)
WorkerDrainRecv(k) ==
    /\ wpc[k] \in {"drain_rcv", "drain2_rcv"}
    /\ Len(postCh) > 0
    /\ postCh' = Tail(postCh)
    /\ postTag' = Tail(postTag)
    /\ wpc' = [wpc EXCEPT ![k] = IF wpc[k] = "drain_rcv" THEN "drain" ELSE "drain2"]
    /\ UNCHANGED <<ownerVars, writerVars, listeners, running, wg, slsmu, lpc, wver,
                   wtag, last, commits>>
    /\ UNCHANGED snapVars

\* run, line 592: sls.wg.Done()
WorkerDone(k) ==
    /\ wpc[k] = "wgdone"
    /\ wg' = wg - 1
    /\ wpc' = [wpc EXCEPT ![k] = "setrun"]
    /\ UNCHANGED <<ownerVars, writerVars, listeners, postCh, running, slsmu, lpc, wver,
                   postTag, wtag, last, commits>>
    /\ UNCHANGED snapVars

\* run, line 593: sls.running.Store(true)
WorkerRunning(k) ==
    /\ wpc[k] = "setrun"
    /\ running' = TRUE
    /\ wpc' = [wpc EXCEPT ![k] = "recv"]
    /\ UNCHANGED <<ownerVars, writerVars, listeners, postCh, wg, slsmu, lpc, wver,
                   postTag, wtag, last, commits>>
    /\ UNCHANGED snapVars

\* run, lines 594-597: receive the next entry; the sentinel ends the loop
WorkerRecv(k) ==
    /\ wpc[k] = "recv"
    /\ Len(postCh) > 0
    /\ postCh' = Tail(postCh)
    /\ postTag' = Tail(postTag)
    /\ IF Head(postCh) = Sentinel
       THEN /\ wpc' = [wpc EXCEPT ![k] = "drain2"]
            /\ UNCHANGED <<wver, wtag>>
       ELSE /\ wpc' = [wpc EXCEPT ![k] = "rlock"]
            /\ wver' = [wver EXCEPT ![k] = Head(postCh)]
            /\ wtag' = [wtag EXCEPT ![k] = Head(postTag)]
    /\ UNCHANGED <<ownerVars, writerVars, listeners, running, wg, slsmu, lpc, last, commits>>
    /\ UNCHANGED snapVars

\* run, line 598: sls.mu.RLock()
WorkerRLock(k) ==
    /\ wpc[k] = "rlock"
    /\ slsmu.w = "none"
    /\ slsmu' = [slsmu EXCEPT !.r = slsmu.r \cup {k}]
    /\ wpc' = [wpc EXCEPT ![k] = "cb"]
    /\ UNCHANGED <<ownerVars, writerVars, listeners, postCh, running, wg, lpc, wver,
                   postTag, wtag, last, commits>>
    /\ UNCHANGED snapVars

\* run, lines 599-604: the callback of every listener, then RUnlock
WorkerCallbacks(k) ==
    /\ wpc[k] = "cb"
    /\ last' = [l \in Listeners |-> IF l \in listeners THEN wver[k] ELSE last[l]]
    /\ commits' = [commits EXCEPT ![wtag[k]].got = @ \cup listeners]
    /\ slsmu' = [slsmu EXCEPT !.r = slsmu.r \ {k}]
    /\ wpc' = [wpc EXCEPT ![k] = "recv"]
    /\ wver' = [wver EXCEPT ![k] = 0]
    /\ wtag' = [wtag EXCEPT ![k] = 0]
    /\ UNCHANGED <<ownerVars, writerVars, listeners, postCh, running, wg, lpc, postTag>>
    /\ UNCHANGED snapVars

(***************************************************************************)
(* The specifications.  Spec starts at the state newSmapOwner and          *)
(* newSmapListeners construct: one writer publishes the first snapshot and *)
(* then synchronizes, while listener l1 registers and unregisters and the  *)
(* workers start, deliver and stop.  SpecOwner starts at a serving node    *)
(* (the first snapshot published, a listener registered, the worker        *)
(* running) and has two writers that synchronize and modify.               *)
(***************************************************************************)
\* the steps of synchronize
SyncSteps ==
    \/ \E w \in Writers : SyncValidate(w)
    \/ \E w \in Writers : SyncLock(w)
    \/ \E w \in Writers, pl \in Payloads, okBytes \in BOOLEAN, okEnc \in BOOLEAN :
          SyncPersist(w, pl, okBytes, okEnc)
    \/ \E w \in Writers : SyncUnlock(w)

\* the steps of put, and the writer's becoming free again
PutSteps ==
    \/ \E w \in Writers : PutStore(w)
    \/ \E w \in Writers : notify(w)
    \/ \E w \in Writers : NotifySend(w)
    \/ \E w \in Writers : Finish(w)

\* the steps of modify
ModifySteps ==
    \/ \E w \in Writers, preop \in PreOps : RunPreLock(w, preop)
    \/ \E w \in Writers, ok \in BOOLEAN : RunPrePersist(w, ok)
    \/ \E w \in Writers : RunPrePost(w)
    \/ \E w \in Writers : RunPreUnlock(w)
    \/ \E w \in Writers : ModifyFinal(w)

\* the worker's delivery loop
DeliverySteps ==
    \/ \E k \in WorkerIDs : WorkerRecv(k)
    \/ \E k \in WorkerIDs : WorkerRLock(k)
    \/ \E k \in WorkerIDs : WorkerCallbacks(k)

\* registration of listener l1, and the worker's start and stop
RegSteps ==
    \/ Reg("l1")
    \/ RegWait("l1")
    \/ Unreg("l1")
    \/ UnregSend("l1")
    \/ \E k \in WorkerIDs : WorkerDrain(k)
    \/ \E k \in WorkerIDs : WorkerDrainRecv(k)
    \/ \E k \in WorkerIDs : WorkerDone(k)
    \/ \E k \in WorkerIDs : WorkerRunning(k)

Next ==
    \/ \E m \in StartSmaps : Budget(MaxPosts) /\ StartupPut("w1", m)
    \/ \E m \in {CandA(v) : v \in 1..MaxVer} : Budget(MaxPosts) /\ synchronize("w1", m)
    \/ SyncSteps
    \/ PutSteps
    \/ RegSteps
    \/ DeliverySteps

Spec == Init /\ [][Next]_vars

\* a serving node: the startup code has published the first snapshot, listener
\* l1 has registered and the worker it started is receiving
Serving(m) ==
    /\ smap = m
    /\ mu = "none"
    /\ file = Nil
    /\ siFlags = {}
    /\ pc = [w \in Writers |-> "idle"]
    /\ op = [w \in Writers |-> "none"]
    /\ newSmap = [w \in Writers |-> Nil]
    /\ err = [w \in Writers |-> "-"]
    /\ listeners = {"l1"}
    /\ postCh = <<>>
    /\ running = TRUE
    /\ wg = 0
    /\ slsmu = [w |-> "none", r |-> {}]
    /\ lpc = [l \in Listeners |-> IF l = "l1" THEN "in" ELSE "out"]
    /\ wpc = [k \in WorkerIDs |-> IF k = 1 THEN "recv" ELSE "none"]
    /\ wver = [k \in WorkerIDs |-> 0]
    /\ commits = <<[ver |-> version(m), by |-> "put", ls |-> {}, got |-> {}]>>
    /\ cseq = [w \in Writers |-> 0]
    /\ postTag = <<>>
    /\ wtag = [k \in WorkerIDs |-> 0]
    /\ last = [l \in Listeners |-> 0]
    /\ NoSnap

InitServing == Serving(CandA(1))

NextOwner ==
    \/ \E w \in Writers, m \in Cands : Budget(MaxCommits) /\ synchronize(w, m)
    \/ \E w \in Writers : Budget(MaxCommits) /\ modify(w)
    \/ SyncSteps
    \/ ModifySteps
    \/ PutSteps
    \/ DeliverySteps

SpecOwner == InitServing /\ [][NextOwner]_vars

(***************************************************************************)
(* Two concurrent synchronize calls, one per writer, at a serving node     *)
(* whose current snapshot has version 4: SpecRace56 with candidates of     *)
(* versions 5 and 6, SpecRaceEq with two different candidates of version 5.*)
(***************************************************************************)
InitRace == Serving(CandA(4))

NextRace(m1, m2) ==
    \/ synchronize("w1", m1)
    \/ synchronize("w2", m2)
    \/ \E w \in Writers : SyncValidate(w)
    \/ \E w \in Writers : SyncLock(w)
    \/ \E w \in Writers, pl \in Payloads, okBytes \in BOOLEAN, okEnc \in BOOLEAN :
          SyncPersist(w, pl, okBytes, okEnc)
    \/ \E w \in Writers : SyncUnlock(w)
    \/ \E w \in Writers : PutStore(w)
    \/ \E w \in Writers : notify(w)
    \/ \E w \in Writers : NotifySend(w)
    \/ DeliverySteps

SpecRace56 == InitRace /\ [][NextRace(CandA(5), CandB(6))]_vars

SpecRaceEq == InitRace /\ [][NextRace(CandA(5), CandB(5))]_vars

TypeOK ==
    /\ mu \in Writers \cup {"none"}
    /\ \A w \in Writers : pc[w] \in Resting \cup BeforeStore \cup
           {"notify", "send", "s_unlock", "m_post", "m_unlock", "m_final"}
    /\ \A w \in Writers : pc[w] \in Resting => newSmap[w] = Nil /\ cseq[w] = 0
    /\ Len(postCh) = Len(postTag)
    /\ Len(postCh) <= PostChCap
    /\ wg \in 0..MaxWorkers

\* the serving node is a state the node reaches from its construction
NotServing == ~InitServing


(***************************************************************************)
(* A snapshot in the hands of one caller.  SpecSnap starts from newSmap()  *)
(* and lets the caller apply the membership methods, assign Primary, staff *)
(* the committee and clone; after clone, snap is the clone and orig the    *)
(* snapshot it was made from.  A method that panics ends the caller.       *)
(***************************************************************************)
MaxEdits == 3

SnapNodes == {P1, P2, T1({}), T2, Snode("p1", "target", {}), Snode("t1", "proxy", {})}
SnapIds == {n.id : n \in SnapNodes}
SnapFlags == {{SnodeIC}, {SnodeMaint}}

\* orig as the calls on the clone leave it: the node objects the two have in
\* common carry what the clone's object carries
Propagate(o, r, sh) ==
    IF o = Nil THEN Nil
    ELSE [o EXCEPT
           !.Tmap = [x \in DOMAIN o.Tmap |->
                       IF x \in sh /\ x \in DOMAIN r.Tmap THEN r.Tmap[x] ELSE o.Tmap[x]],
           !.Pmap = [x \in DOMAIN o.Pmap |->
                       IF x \in sh /\ x \in DOMAIN r.Pmap THEN r.Pmap[x] ELSE o.Pmap[x]]]

Alive == lastOp.ret # "panic"

\* the call of method name on snap ends in one of rs; the objects with the
\* ids in gone left snap's maps
Apply(name, rs, gone) ==
    /\ Alive
    /\ snap # Nil
    /\ \E r \in rs :
          IF r = Fatal
          THEN /\ lastOp' = [name |-> name, ret |-> "panic"]
               /\ UNCHANGED <<snap, orig, shared>>
          ELSE /\ r.Version <= MaxEdits
               /\ snap' = r
               /\ shared' = shared \ gone
               /\ orig' = Propagate(orig, r, shared \ gone)
               /\ lastOp' = [name |-> name, ret |-> "nil"]
    /\ UNCHANGED nodeVars

SnapAddProxy(psi) == IsProxy(psi) /\ Apply("addProxy", {addProxy(snap, psi)}, {})

SnapAddTarget(tsi) == IsTarget(tsi) /\ Apply("addTarget", {addTarget(snap, tsi)}, {})

SnapDelProxy(pid) == Apply("delProxy", {delProxy(snap, pid)}, {pid})

SnapDelTarget(sid) == Apply("delTarget", {delTarget(snap, sid)}, {sid})

SnapPutNode(nsi, flags) == Apply("putNode", {putNode(snap, nsi, flags)}, {nsi.id})

SnapSetNodeFlags(sid, flags) == Apply("setNodeFlags", {setNodeFlags(snap, sid, flags)}, {})

SnapClearNodeFlags(sid, flags) ==
    Apply("clearNodeFlags", {clearNodeFlags(snap, sid, flags)}, {})

SnapStaffIC == Apply("staffIC", staffIC(snap), {})

\* the caller makes a proxy of the snapshot its primary
SnapSetPrimary(pid) ==
    /\ Alive
    /\ snap # Nil
    /\ pid \in DOMAIN snap.Pmap
    /\ snap.Primary # PtrP(pid)
    /\ snap' = [snap EXCEPT !.Primary = PtrP(pid)]
    /\ lastOp' = [name |-> "Primary", ret |-> "nil"]
    /\ UNCHANGED <<orig, shared, nodeVars>>

\* clone: from here on the caller edits the clone
SnapClone ==
    /\ Alive
    /\ snap # Nil
    /\ orig = Nil
    /\ IF clone(snap) = Fatal
       THEN /\ lastOp' = [name |-> "clone", ret |-> "panic"]
            /\ UNCHANGED <<snap, orig, shared>>
       ELSE /\ snap' = clone(snap)
            /\ orig' = snap
            /\ shared' = cloneShared(snap)
            /\ lastOp' = [name |-> "clone", ret |-> "nil"]
    /\ UNCHANGED nodeVars

InitSnap ==
    /\ Constructed
    /\ snap = NewSmap
    /\ orig = Nil
    /\ shared = {}
    /\ lastOp = [name |-> "newSmap", ret |-> "nil"]

NextSnap ==
    \/ \E n \in SnapNodes : SnapAddProxy(n)
    \/ \E n \in SnapNodes : SnapAddTarget(n)
    \/ \E id \in SnapIds : SnapDelProxy(id)
    \/ \E id \in SnapIds : SnapDelTarget(id)
    \/ \E n \in SnapNodes, f \in SnapFlags : SnapPutNode(n, f)
    \/ \E id \in SnapIds, f \in SnapFlags : SnapSetNodeFlags(id, f)
    \/ \E id \in SnapIds, f \in SnapFlags : SnapClearNodeFlags(id, f)
    \/ \E id \in SnapIds : SnapSetPrimary(id)
    \/ SnapStaffIC
    \/ SnapClone

SpecSnap == InitSnap /\ [][NextSnap]_vars

(***************************************************************************)
(* Staffing the committee.  SpecIC starts from the snapshots that n calls  *)
(* of putNode with arbitrary flags build from newSmap(): proxies p1..pn,   *)
(* each an IC member or not, electable or not, p1 the primary, version n.  *)
(* The caller then calls _fillIC, evictIC and staffIC, in any order.       *)
(* SpecICFair is the caller that keeps calling them.                       *)
(***************************************************************************)
MaxProxies == 5

ProxyNames == <<"p1", "p2", "p3", "p4", "p5", "p6", "p7", "p8">>
ICIds(n) == {ProxyNames[i] : i \in 1..n}
ICFlags == SUBSET {SnodeIC, SnodeNonElectable}

\* the call of method name on snap ends in one of rs
ApplyIC(name, rs) ==
    /\ Alive
    /\ \E r \in rs :
          IF r = Fatal
          THEN lastOp' = [name |-> name, ret |-> "panic"] /\ UNCHANGED snap
          ELSE lastOp' = [name |-> name, ret |-> "nil"] /\ snap' = r
    /\ UNCHANGED <<orig, shared, nodeVars>>

ICFill == ApplyIC("_fillIC", _fillIC(snap))

ICEvict == ApplyIC("evictIC", evictIC(snap))

ICStaff == ApplyIC("staffIC", staffIC(snap))

InitIC ==
    /\ Constructed
    /\ \E n \in 1..MaxProxies : \E fl \in [ICIds(n) -> ICFlags] :
          snap = Smap(EmptyMap, [id \in ICIds(n) |-> Snode(id, "proxy", fl[id])],
                      PtrP("p1"), n, "")
    /\ orig = Nil
    /\ shared = {}
    /\ lastOp = [name |-> "putNode", ret |-> "nil"]

NextIC == ICFill \/ ICEvict \/ ICStaff

SpecIC == InitIC /\ [][NextIC]_vars

SpecICFair == SpecIC /\ WF_vars(NextIC)

\* every proxy of the snapshot is electable
AllElectable(m) == \A id \in DOMAIN m.Pmap : SnodeNonElectable \notin m.Pmap[id].flags

(***************************************************************************)
(* merge.  SpecMerge starts from two snapshots built by putNode from       *)
(* newSmap(), orig and snap, and calls orig.merge(snap, override).  The    *)
(* nodes: targets a1, b2, c and proxies a2, b1, c; the target c and the    *)
(* proxy c are two nodes with one id.                                      *)
(***************************************************************************)
MergeNodes == {Snode("a1", "target", {}), Snode("a2", "proxy", {}),
               Snode("b1", "proxy", {}), Snode("b2", "target", {}),
               Snode("c", "target", {}), Snode("c", "proxy", {})}

\* the snapshot putNode builds of the nodes ns, no two with one id
Built(ns, uuid) ==
    Smap([id \in {n.id : n \in {x \in ns : IsTarget(x)}} |-> Snode(id, "target", {})],
         [id \in {n.id : n \in {x \in ns : IsProxy(x)}} |-> Snode(id, "proxy", {})],
         Nil, Cardinality(ns), uuid)

MergeSnaps ==
    {Built(ns, uuid) : ns \in {x \in SUBSET MergeNodes :
                                  \A n1, n2 \in x : n1.id = n2.id => n1 = n2},
                       uuid \in {"", "u1"}}

\* the members of a snapshot: (id, role)
Members(m) ==
    {<<id, "target">> : id \in DOMAIN m.Tmap} \cup {<<id, "proxy">> : id \in DOMAIN m.Pmap}

IdsOf(m) == (DOMAIN m.Tmap) \cup (DOMAIN m.Pmap)

\* the two snapshots have no node id in common
Disjoint(a, b) == IdsOf(a) \cap IdsOf(b) = {}

\* no two nodes of the two snapshots have one URL under two ids
NoConflict(a, b) ==
    \A x, y \in IdsOf(a) \cup IdsOf(b) : x # y => URLOf(x) # URLOf(y)

\* orig.merge(snap, override): merge writes its argument
Merge(override) ==
    /\ lastOp.name = "putNode"
    /\ \E r \in merge(orig, snap, override) :
          /\ snap' = r.dst
          /\ shared' = mergeShared(shared, r)
          /\ lastOp' = [name |-> IF override THEN "mergeOverride" ELSE "merge",
                        ret |-> r.err]
    /\ UNCHANGED <<orig, nodeVars>>

InitMerge ==
    /\ Constructed
    /\ orig \in MergeSnaps
    /\ snap \in MergeSnaps
    /\ shared = {}
    /\ lastOp = [name |-> "putNode", ret |-> "nil"]

NextMerge == \E override \in BOOLEAN : Merge(override)

SpecMerge == InitMerge /\ [][NextMerge]_vars

(***************************************************************************)
(* validateUUID.  SpecUUID starts from a local snapshot orig and a         *)
(* snapshot snap received from a peer, either of them possibly nil, with   *)
(* uuids that are empty, malformed or valid, and calls                     *)
(* orig.validateUUID(si, snap, caller, cieNum).                            *)
(***************************************************************************)
MaxUUIDVer == 2

UUIDs == {"", "?"} \cup ValidUUIDs

UUIDSnaps ==
    {Nil} \cup {[CandA(v) EXCEPT !.UUID = u] : v \in 0..MaxUUIDVer, u \in UUIDs}

ValidateUUID ==
    /\ lastOp.name = "none"
    /\ lastOp' = [name |-> "validateUUID", ret |-> validateUUID(orig, snap)]
    /\ UNCHANGED <<snap, orig, shared, nodeVars>>

InitUUID ==
    /\ Constructed
    /\ orig \in UUIDSnaps
    /\ snap \in UUIDSnaps
    /\ shared = {}
    /\ lastOp = [name |-> "none", ret |-> "nil"]

NextUUID == ValidateUUID

SpecUUID == InitUUID /\ [][NextUUID]_vars

(***************************************************************************)
(* SpecLoad: smapOwner.load at startup, over every state of the persisted  *)
(* file: missing, unreadable, of bytes that do not decode, or the encoding *)
(* of a snapshot (any version from 0, with or without a primary, the       *)
(* primary in the map or not, the uuid set or not).  snap is the smapX the *)
(* caller hands to load and lastOp what load returned.                     *)
(***************************************************************************)
\* a file that exists and cannot be read
Unreadable == [bytes |-> Nil, via |-> "eio"]

\* a file that is read and whose bytes do not decode
Garbled == [bytes |-> Nil, via |-> "garbled"]

\* the snapshots a persisted file may hold
LoadSmaps ==
    {[[c EXCEPT !.Primary = p] EXCEPT !.UUID = u] :
        c \in {CandA(v) : v \in 0..MaxVer} \cup {CandB(v) : v \in 0..MaxVer},
        p \in {PtrP("p1"), Nil, PtrX(P2), PtrT("t1")},
        u \in {"cluster-A", ""}}

\* the states of the file at r.fpath
LoadFiles ==
    {Nil, Unreadable, Garbled}
        \cup {[bytes |-> _encode(m), via |-> "encode"] : m \in LoadSmaps}

\* jsp.LoadMeta: the error it returns and the smapX it leaves in its argument
LoadMeta(f, m) ==
    IF f = Nil THEN [err |-> "errNotExist", smap |-> m]
    ELSE IF f = Unreadable THEN [err |-> "errIO", smap |-> m]
    ELSE IF f = Garbled THEN [err |-> "errDecode", smap |-> m]
    ELSE [err |-> "nil", smap |-> Decode(f.bytes)]

\* load with one check lost: the zero version is let through
loadNoV0(f, m) ==
    LET r == LoadMeta(f, m) IN
    IF r.err # "nil"
    THEN IF r.err = "errNotExist"
         THEN [loaded |-> FALSE, err |-> "nil", smap |-> r.smap]
         ELSE [loaded |-> FALSE, err |-> r.err, smap |-> r.smap]
    ELSE IF ~isValid(r.smap)
         THEN [loaded |-> FALSE, err |-> "errInvalid", smap |-> r.smap]
         ELSE [loaded |-> TRUE, err |-> "nil", smap |-> r.smap]

\* load, lines 444-456
load(f, m) ==
    LET r == LoadMeta(f, m) IN
    IF r.err # "nil"
    THEN IF r.err = "errNotExist"
         THEN [loaded |-> FALSE, err |-> "nil", smap |-> r.smap]
         ELSE [loaded |-> FALSE, err |-> r.err, smap |-> r.smap]
    ELSE IF version(r.smap) = 0 \/ ~isValid(r.smap)
         THEN [loaded |-> FALSE, err |-> "errInvalid", smap |-> r.smap]
         ELSE [loaded |-> TRUE, err |-> "nil", smap |-> r.smap]

\* the startup code calls r.load(smap)
Load ==
    /\ lastOp.name = "none"
    /\ LET r == load(file, snap) IN
       /\ lastOp' = [name |-> "load", ret |-> r.err, loaded |-> r.loaded]
       /\ snap' = r.smap
    /\ UNCHANGED <<orig, shared, nodeVars>>

\* the owner as constructed, or after an earlier put, with a file of any
\* state at r.fpath and a new smapX for load to fill
InitLoad ==
    /\ smap \in {Nil, CandA(1)}
    /\ file \in LoadFiles
    /\ mu = "none"
    /\ siFlags = {}
    /\ pc = [w \in Writers |-> "idle"]
    /\ op = [w \in Writers |-> "none"]
    /\ newSmap = [w \in Writers |-> Nil]
    /\ err = [w \in Writers |-> "-"]
    /\ listeners = {}
    /\ postCh = <<>>
    /\ running = FALSE
    /\ wg = 0
    /\ slsmu = [w |-> "none", r |-> {}]
    /\ lpc = [l \in Listeners |-> "out"]
    /\ wpc = [k \in WorkerIDs |-> "none"]
    /\ wver = [k \in WorkerIDs |-> 0]
    /\ commits = <<>>
    /\ cseq = [w \in Writers |-> 0]
    /\ postTag = <<>>
    /\ wtag = [k \in WorkerIDs |-> 0]
    /\ last = [l \in Listeners |-> 0]
    /\ snap = NewSmap
    /\ orig = Nil
    /\ shared = {}
    /\ lastOp = [name |-> "none", ret |-> "nil"]

NextLoad == Load

SpecLoad == InitLoad /\ [][NextLoad]_vars

(***************************************************************************)
(* SpecBusy: a serving node whose writer w1 commits one no-op transaction  *)
(* after the other while the worker delivers at its own pace: the worker   *)
(* may stay in a callback for any number of the writer's steps.            *)
(***************************************************************************)
\* the commits SpecBusy lets the writer make: the first put, the one whose
\* callback is running, a full queue and one more
MaxModifies == 11

NextBusy ==
    \/ Budget(MaxModifies) /\ modify("w1")
    \/ RunPreLock("w1", "noop")
    \/ \E ok \in BOOLEAN : RunPrePersist("w1", ok)
    \/ PutStore("w1")
    \/ notify("w1")
    \/ NotifySend("w1")
    \/ RunPrePost("w1")
    \/ RunPreUnlock("w1")
    \/ ModifyFinal("w1")
    \/ Finish("w1")
    \/ DeliverySteps

SpecBusy == InitServing /\ [][NextBusy]_vars

(***************************************************************************)
(* SpecRead: a serving node with a writer that synchronizes and modifies   *)
(* and a reader that calls get() at any moment and keeps the reference it  *)
(* got in snap.                                                            *)
(***************************************************************************)
\* a load that yields the snapshot a writer is still building
getUnpublished ==
    IF \E w \in Writers : newSmap[w] # Nil
    THEN newSmap[CHOOSE w \in Writers : newSmap[w] # Nil]
    ELSE smap

\* get, lines 472-474: r.smap.Load()
get == smap

\* the reader calls get(): no lock is taken, the load cannot wait
Get ==
    /\ snap' = get
    /\ lastOp' = [name |-> "get", ret |-> "nil"]
    /\ UNCHANGED <<orig, shared, nodeVars>>

NextRead ==
    \/ \E m \in Cands : Budget(MaxCommits) /\ synchronize("w1", m)
    \/ Budget(MaxCommits) /\ modify("w1")
    \/ SyncSteps
    \/ ModifySteps
    \/ PutSteps
    \/ DeliverySteps
    \/ Get

SpecRead == InitServing /\ [][NextRead]_vars

(***************************************************************************)
(* SpecFlags: two writers synchronize, at a serving node, candidates that  *)
(* record the local node t1 without flags (CandA), under maintenance       *)
(* (CandB) or not at all (CandC).                                          *)
(***************************************************************************)
\* a cluster map of version v that does not hold the local node
CandC(v) == Smap([x \in {"t2"} |-> T2], [x \in {"p1"} |-> P1], PtrX(P1), v, "cluster-A")

FlagCands == {CandA(v) : v \in 1..MaxVer} \cup {CandB(v) : v \in 1..MaxVer}
                \cup {CandC(v) : v \in 1..MaxVer}

NextFlags ==
    \/ \E w \in Writers, m \in FlagCands : Budget(MaxCommits) /\ synchronize(w, m)
    \/ SyncSteps
    \/ PutSteps
    \/ DeliverySteps

SpecFlags == InitServing /\ [][NextFlags]_vars

(***************************************************************************)
(* SpecPrimary: a serving node whose writer synchronizes and runs modify   *)
(* transactions with pre callbacks that remove or replace the proxy the    *)
(* primary is.                                                             *)
(***************************************************************************)
\* pre callbacks on the primary's id
PrimaryPreOps == {"noop", "delPrimary", "putPrimary"}

NextPrimary ==
    \/ \E m \in ValidCands : Budget(MaxCommits) /\ synchronize("w1", m)
    \/ Budget(MaxCommits) /\ modify("w1")
    \/ \E preop \in PrimaryPreOps : RunPreLock("w1", preop)
    \/ \E ok \in BOOLEAN : RunPrePersist("w1", ok)
    \/ RunPrePost("w1")
    \/ RunPreUnlock("w1")
    \/ ModifyFinal("w1")
    \/ SyncSteps
    \/ PutSteps
    \/ DeliverySteps

SpecPrimary == InitServing /\ [][NextPrimary]_vars

(***************************************************************************)
(* SpecIds: a snapshot built from newSmap() by addTarget, addProxy,        *)
(* delTarget, delProxy and putNode, into which snapshots built the same    *)
(* way are merged, with and without override.  The nodes are those of      *)
(* SpecMerge: c is a target in one snapshot and a proxy in another, a2 and *)
(* b2 have one URL.                                                        *)
(***************************************************************************)
\* the snapshots merged from: built by putNode, of one to three nodes
IdsSources ==
    {m \in MergeSnaps : m.UUID = "u1" /\ m.Version \in 1..MaxEdits}

\* orig.merge(snap, override) on the snapshot under construction
IdsMerge(override) ==
    /\ Alive
    /\ \E r \in merge(orig, snap, override) :
          /\ r.dst.Version <= MaxEdits
          /\ snap' = r.dst
          /\ shared' = mergeShared(shared, r)
          /\ lastOp' = [name |-> IF override THEN "mergeOverride" ELSE "merge",
                        ret |-> r.err]
    /\ UNCHANGED <<orig, nodeVars>>

InitIds ==
    /\ Constructed
    /\ snap = NewSmap
    /\ orig \in IdsSources
    /\ shared = {}
    /\ lastOp = [name |-> "newSmap", ret |-> "nil"]

NextIds ==
    \/ \E n \in MergeNodes : SnapAddProxy(n)
    \/ \E n \in MergeNodes : SnapAddTarget(n)
    \/ \E n \in MergeNodes : SnapDelProxy(n.id)
    \/ \E n \in MergeNodes : SnapDelTarget(n.id)
    \/ \E n \in MergeNodes : SnapPutNode(n, {})
    \/ \E override \in BOOLEAN : IdsMerge(override)

SpecIds == InitIds /\ [][NextIds]_vars

(***************************************************************************)
(* SpecStaff: the IC calls on snapshots of one to MaxProxies proxies whose *)
(* primary p1 is referred to either by the proxy map's own entry or by a   *)
(* node object of its own (a decoded snapshot, a replaced entry).          *)
(***************************************************************************)
InitStaff ==
    /\ Constructed
    /\ \E n \in 1..MaxProxies : \E fl \in [ICIds(n) -> ICFlags] :
       \E prim \in {PtrP("p1"), PtrX(Snode("p1", "proxy", {}))} :
          snap = Smap(EmptyMap, [id \in ICIds(n) |-> Snode(id, "proxy", fl[id])],
                      prim, n, "")
    /\ orig = Nil
    /\ shared = {}
    /\ lastOp = [name |-> "putNode", ret |-> "nil"]

SpecStaff == InitStaff /\ [][NextIC]_vars

(***************************************************************************)
(* SpecFanout: SpecBusy with listener l1, the last one, unregistering.     *)
(* The callbacks call neither Reg nor Unreg.  SpecFanoutFair adds          *)
(* the scheduler's fairness: a goroutine that can step does so in the end.  *)
(***************************************************************************)
UnregSteps ==
    \/ Unreg("l1")
    \/ UnregSend("l1")

NextFanout ==
    \/ NextBusy
    \/ UnregSteps

SpecFanout == InitServing /\ [][NextFanout]_vars

SpecFanoutFair ==
    SpecFanout /\ WF_vars(UnregSteps) /\ WF_vars(DeliverySteps) /\ WF_vars(NextBusy)

(***************************************************************************)
(* SpecAlias: orig.merge(snap, override) followed by flag changes on snap. *)
(* merge stores in snap's maps the node objects of orig themselves (lines  *)
(* 336 and 348), so the ids merge inserted join shared, and a write to     *)
(* such an object is seen through both snapshots.                          *)
(***************************************************************************)
\* the snapshots merged into: newSmap() or one putNode after it
AliasDsts == {m \in MergeSnaps : m.UUID = "" /\ m.Version <= 1}

\* orig.merge(snap, override)
MergeShare(override) ==
    /\ Alive
    /\ lastOp.name = "putNode"
    /\ \E r \in merge(orig, snap, override) :
          /\ snap' = r.dst
          /\ shared' = mergeShared(shared, r)
          /\ lastOp' = [name |-> IF override THEN "mergeOverride" ELSE "merge",
                        ret |-> r.err]
    /\ UNCHANGED <<orig, nodeVars>>

InitAlias ==
    /\ Constructed
    /\ orig \in IdsSources
    /\ snap \in AliasDsts
    /\ shared = {}
    /\ lastOp = [name |-> "putNode", ret |-> "nil"]

NextAlias ==
    \/ \E override \in BOOLEAN : MergeShare(override)
    \/ \E n \in MergeNodes, f \in SnapFlags : SnapSetNodeFlags(n.id, f)
    \/ \E n \in MergeNodes, f \in SnapFlags : SnapClearNodeFlags(n.id, f)
    \/ \E n \in MergeNodes : SnapSetPrimary(n.id)
    \/ SnapStaffIC

SpecAlias == InitAlias /\ [][NextAlias]_vars

(***************************************************************************)
(* The properties.                                                         *)
(***************************************************************************)

\* C1: every commit of a modify transaction publishes a version strictly
\* greater than the version published before it, whatever pre does.
C1_ModifyStrictlyIncreases ==
    [][\A w \in Writers :
          (op[w] = "modify" /\ pc[w] = "put" /\ pc'[w] = "notify")
              => smap'.Version > smap.Version]_vars

\* C2: a synchronize call whose valid candidate is not newer than the current
\* snapshot leaves the published snapshot, the file and the listeners' queue
\* as they are in each of its steps, and returns at the version comparison.
C2_NotNewerChangesNothing ==
    [][\A w \in Writers :
          /\ (op'[w] = "sync" /\ pc[w] \in {"idle", "s_validate"} /\ pc'[w] # pc[w])
                => (smap' = smap /\ file' = file /\ postCh' = postCh /\ commits' = commits)
          /\ (pc[w] = "s_lock" /\ pc'[w] # pc[w] /\ smap # Nil
                /\ newSmap[w].Version <= smap.Version)
                => (smap' = smap /\ file' = file /\ postCh' = postCh /\ commits' = commits
                    /\ pc'[w] = "done" /\ mu' = "none")]_vars

\* C2, its case: a synchronize call was rejected as older after a snapshot
\* had been saved and while the worker was delivering
C2_Witness ==
    \E w \in Writers :
        /\ op[w] = "sync" /\ pc[w] = "done" /\ err[w] = "errDowngrade"
        /\ file # Nil /\ smap.Version > 1 /\ running

\* C3: once everything has come to rest, every commit by synchronize or
\* modify has been delivered to every listener registered when it was made.
C3_EveryCommitDelivered ==
    (/\ postCh = <<>>
     /\ \A w \in Writers : pc[w] \in Resting
     /\ \A k \in WorkerIDs : wpc[k] \in {"none", "recv"}
     /\ \A l \in Listeners : lpc[l] \in {"in", "out"})
        => \A i \in 1..Len(commits) :
              commits[i].by \in {"sync", "modify"} => commits[i].ls \subseteq commits[i].got

\* C4: a listener's callbacks run in the order of the commits: the version a
\* callback is for is never older than the version of the callback before.
C4_DeliveredInCommitOrder ==
    [][\A l \in Listeners : last'[l] >= last[l]]_vars

\* C5: versions 5 and 6 synchronized concurrently over version 4: once both
\* calls have returned, neither with a persistence error, the current
\* version is 6.
C5_RaceEndsAtSix ==
    ((\A w \in Writers : pc[w] = "done") /\ (\A w \in Writers : err[w] # "errPersist"))
        => smap.Version = 6

\* C5, its case: both calls have returned, the version-5 call after the
\* version-6 call had published
C5_Witness ==
    /\ \A w \in Writers : pc[w] = "done"
    /\ err["w1"] = "errDowngrade" /\ err["w2"] = "nil"
    /\ smap = CandB(6)

\* C6 as stated: of the two candidates only the one with version 6 is ever
\* published.
C6_OnlySixPublished ==
    \A i \in 2..Len(commits) : commits[i].ver = 6

\* C6, amended: the candidate with version 6 is published in every
\* interleaving and stays the current snapshot; the candidate with version 5
\* is published as well, before it, exactly when its call passes the version
\* comparison first, and is refused with the downgrade error otherwise.
C6_SixWinsFiveMayPrecede ==
    /\ \A i \in 2..Len(commits) : \A j \in 2..Len(commits) :
          i < j => (commits[i].ver = 5 /\ commits[j].ver = 6)
    /\ ((\A w \in Writers : pc[w] = "done") /\ (\A w \in Writers : err[w] # "errPersist"))
          => /\ smap = CandB(6)
             /\ err["w2"] = "nil"
             /\ \/ err["w1"] = "nil" /\ Len(commits) = 3
                \/ err["w1"] = "errDowngrade" /\ Len(commits) = 2 /\ commits[2].ver = 6

\* C6, its case: both candidates were published, 5 and then 6
C6_Witness ==
    /\ \A w \in Writers : pc[w] = "done"
    /\ Len(commits) = 3 /\ commits[2].ver = 5 /\ commits[3].ver = 6

\* a writer of synchronize or modify is between its version comparison (its
\* clone) and its unlock exactly when it holds the mutex: at most one is
MutualExclusion ==
    \A w \in Writers :
        (op[w] \in {"sync", "modify"}
           /\ pc[w] \in {"s_persist", "m_persist", "put", "notify", "send",
                         "s_unlock", "m_post", "m_unlock"}) <=> mu = w

\* C7: the writers exclude each other from the comparison to the unlock; of
\* two different candidates of one newer version synchronized concurrently
\* only the one whose call locks first is published, the other call returns
\* without publishing and without error.
C7_FirstWriterWins ==
    /\ MutualExclusion
    /\ \A w \in Writers : pc[w] \in {"s_persist", "put"} => smap = CandA(4)
    /\ Len(commits) <= 2
    /\ \A w \in Writers : err[w] # "errDowngrade"
    /\ ((\A w \in Writers : pc[w] = "done") /\ (\A w \in Writers : err[w] # "errPersist"))
          => /\ Len(commits) = 2 /\ commits[2].ver = 5
             /\ smap \in {CandA(5), CandB(5)}
             /\ \A w \in Writers : err[w] = "nil"

\* C7, its case: both calls have returned and the second writer's candidate
\* is the one published
C7_Witness ==
    /\ \A w \in Writers : pc[w] = "done" /\ err[w] = "nil"
    /\ smap = CandB(5) /\ Len(commits) = 2

\* the candidates C8 calls invalid, as it lists them
InvalidCandidate(m) ==
    \/ m = Nil
    \/ m.Version = 0
    \/ m.Primary = Nil
    \/ (m.Primary.in = "X" /\ m.Primary.node.typ = "proxy"
          /\ m.Primary.node.id \notin DOMAIN m.Pmap)
    \/ (m.Primary.in = "X" /\ m.Primary.node.typ = "target"
          /\ m.Primary.node.id \notin DOMAIN m.Tmap)
    \/ m.UUID \notin ValidUUIDs

\* C8: synchronize with an invalid candidate (nil, version 0, no primary, a
\* primary absent from the map of its role, a uuid that is not valid) returns
\* an error at its validation and changes nothing: not the published
\* snapshot, the file, the queue, nor the flags of the local node.
C8_InvalidChangesNothing ==
    [][\A w \in Writers :
          LET untouched == smap' = smap /\ file' = file /\ postCh' = postCh
                           /\ siFlags' = siFlags /\ commits' = commits /\ mu' = mu
          IN /\ (pc[w] = "idle" /\ pc'[w] = "s_validate" /\ InvalidCandidate(newSmap'[w]))
                   => untouched
             /\ (pc[w] = "s_validate" /\ pc'[w] # "s_validate"
                   /\ InvalidCandidate(newSmap[w]))
                   => (untouched /\ pc'[w] = "done"
                       /\ err'[w] \notin {"nil", "-", "errDowngrade"})]_vars

\* C8, its case: a call with a candidate whose primary is absent has
\* returned its error at a node that has published and saved snapshots
C8_Witness ==
    \E w \in Writers :
        /\ op[w] = "sync" /\ pc[w] = "done" /\ err[w] = "Smap: primary not present"
        /\ file # Nil /\ Len(commits) > 1

\* C9: synchronize and modify publish a snapshot only after its bytes were
\* saved; a failed save leaves the published snapshot and the queue alone and
\* the call goes on without publishing; so the file holds the bytes of the
\* snapshot synchronize or modify published last.
C9_DurableBeforePublished ==
    /\ [](/\ \A w \in Writers :
               (pc[w] = "put" /\ op[w] \in {"sync", "modify"})
                   => (file # Nil /\ file.bytes = _encode(newSmap[w]))
          /\ commits[Len(commits)].by \in {"sync", "modify"}
               => /\ file # Nil
                  /\ \/ file.bytes = _encode(smap)
                     \/ \E w \in Writers : pc[w] = "put" /\ file.bytes = _encode(newSmap[w]))
    /\ [][\A w \in Writers :
             /\ (pc[w] \in {"s_persist", "m_persist"} /\ pc'[w] \notin {pc[w], "put"})
                   => (smap' = smap /\ postCh' = postCh /\ commits' = commits
                       /\ file' = file /\ pc'[w] \in {"s_unlock", "done"}
                       /\ err'[w] \in {"errPersist", "errFailedToPersist"})
             /\ (pc[w] = "s_unlock" /\ pc'[w] # pc[w])
                   => (smap' = smap /\ postCh' = postCh /\ commits' = commits)]_vars

\* C9, its case: one call failed to save and returned its error, another
\* saved the payload's bytes and published
C9_Witness ==
    /\ \E w \in Writers : pc[w] = "done" /\ err[w] = "errPersist"
    /\ commits[Len(commits)].by = "sync"
    /\ file # Nil /\ file.via = "payload" /\ file.bytes = _encode(smap)

\* C10: a synchronize call with a valid candidate returns the downgrade
\* error exactly when the candidate is older than the current snapshot; an
\* equal version is refused without error; a newer candidate that was saved
\* is published and the call returns without error.
C10_DowngradeIffOlder ==
    [][\A w \in Writers :
          /\ (pc[w] = "s_lock" /\ pc'[w] = "done")
                => /\ newSmap[w].Version <= smap.Version
                   /\ smap' = smap
                   /\ err'[w] = "errDowngrade" <=> newSmap[w].Version < smap.Version
                   /\ err'[w] = "nil" <=> newSmap[w].Version = smap.Version
          /\ (pc[w] = "s_lock" /\ pc'[w] = "s_persist")
                => newSmap[w].Version > smap.Version
          /\ (pc[w] = "s_unlock" /\ pc'[w] = "done")
                => /\ err'[w] # "errDowngrade"
                   /\ err'[w] = "nil" <=> cseq[w] # 0
                   /\ cseq[w] # 0 => commits[cseq[w]].ver > commits[cseq[w] - 1].ver]_vars

\* C10, its case: one call was refused as older, the other was refused or
\* accepted without error, after a newer candidate had been published
C10_Witness ==
    \E w \in Writers : \E x \in Writers :
        /\ op[w] = "sync" /\ pc[w] = "done" /\ err[w] = "errDowngrade"
        /\ op[x] = "sync" /\ pc[x] = "done" /\ err[x] = "nil"
        /\ \E i \in 2..Len(commits) : commits[i].by = "sync"


\* C11: when pre returns an error, modify returns that error from the step
\* that ran pre: the published snapshot, the file, the queue and the commit
\* history are as before, the mutex is free, and the writer never gets to
\* persist, put, post or final.
C11_PreErrorAborts ==
    /\ [](\A w \in Writers : err[w] = "errPre" => (pc[w] = "done" /\ mu # w))
    /\ [][\A w \in Writers :
             (pc[w] = "m_lock" /\ err'[w] = "errPre")
                 => (smap' = smap /\ file' = file /\ postCh' = postCh /\ commits' = commits
                     /\ mu' = "none" /\ pc'[w] = "done")]_vars

\* C11, its case: a modify has returned pre's error and the other writer has
\* since taken the mutex for a transaction of its own
C11_Witness ==
    \E w \in Writers : \E x \in Writers :
        /\ op[w] = "modify" /\ pc[w] = "done" /\ err[w] = "errPre"
        /\ op[x] = "modify" /\ pc[x] = "m_persist" /\ mu = x

\* C12: when persisting the clone fails, modify returns the failed-to-persist
\* error from that step: the published snapshot, the file, the queue and the
\* commit history are as before, the mutex is free, and the writer never gets
\* to put, post or final.
C12_PersistErrorAborts ==
    /\ [](\A w \in Writers : err[w] = "errFailedToPersist" => (pc[w] = "done" /\ mu # w))
    /\ [][\A w \in Writers :
             (pc[w] = "m_persist" /\ err'[w] = "errFailedToPersist")
                 => (smap' = smap /\ file' = file /\ postCh' = postCh /\ commits' = commits
                     /\ mu' = "none" /\ pc'[w] = "done")]_vars

\* C12, its case: a modify has returned the failed-to-persist error and the
\* other writer has since published
C12_Witness ==
    \E w \in Writers : \E x \in Writers :
        /\ op[w] = "modify" /\ pc[w] = "done" /\ err[w] = "errFailedToPersist"
        /\ pc[x] \in {"notify", "send"} /\ mu = x

\* C13: a modify transaction goes through pre, persist, the store, notify
\* (one entry enqueued when the worker is running), post, the unlock and
\* final, in this order: up to post the writer holds the mutex and from the
\* store to post its clone is the published snapshot; the clone is stored
\* only with its bytes in the file; final runs with the clone published and
\* the mutex released.
C13_ModifyStepOrder ==
    /\ [](\A w \in Writers : op[w] = "modify" =>
            /\ pc[w] \in {"m_persist", "put"} => (mu = w /\ cseq[w] = 0)
            /\ pc[w] = "put" => (file # Nil /\ file.bytes = _encode(newSmap[w]))
            /\ pc[w] \in {"notify", "send", "m_post", "m_unlock"}
                  => (mu = w /\ cseq[w] # 0 /\ smap = newSmap[w])
            /\ pc[w] = "m_final" => (mu # w /\ cseq[w] # 0))
    /\ [][\A w \in Writers :
             (op'[w] = "modify" /\ pc'[w] # pc[w]) =>
                /\ <<pc[w], pc'[w]>> \in
                      { <<"idle", "m_lock">>, <<"m_lock", "m_persist">>, <<"m_lock", "done">>,
                        <<"m_lock", "panic">>, <<"m_persist", "put">>, <<"m_persist", "done">>,
                        <<"put", "notify">>, <<"notify", "send">>, <<"notify", "m_post">>,
                        <<"send", "m_post">>, <<"m_post", "m_unlock">>,
                        <<"m_unlock", "m_final">>, <<"m_final", "done">> }
                /\ pc[w] = "put" => smap' = newSmap[w]
                /\ (pc[w] = "notify" /\ pc'[w] = "m_post") => ~running
                /\ IF pc[w] = "send"
                   THEN postCh' = Append(postCh, newSmap[w].Version)
                   ELSE postCh' = postCh
                /\ pc[w] = "m_final" => err'[w] = "nil"]_vars

\* C13, its case: a writer is at final, its clone published and its
\* notification enqueued, while the other writer holds the mutex
C13_Witness ==
    \E w \in Writers : \E x \in Writers :
        /\ op[w] = "modify" /\ pc[w] = "m_final" /\ cseq[w] # 0
        /\ commits[cseq[w]].by = "modify"
        /\ x # w /\ mu = x

\* C14: clone() yields an independent copy.  No call on the clone (addTarget,
\* addProxy, delTarget, delProxy, putNode, setNodeFlags, clearNodeFlags,
\* staffIC, or an assignment of its Primary) changes the snapshot it was made
\* from: maps, node flags, version and primary stay as they were.  And when the
\* primary's id is in the original's proxy map, the clone's Primary points to
\* the clone's own proxy record with that id, an object the original does not
\* hold, with the original primary's id.
C14_CloneIndependent ==
    [][/\ orig # Nil => orig' = orig
       /\ (orig = Nil /\ orig' # Nil /\ snap.Primary # Nil
             /\ Deref(snap, snap.Primary).id \in DOMAIN snap.Pmap)
          => LET pid == Deref(snap, snap.Primary).id IN
             /\ orig' = snap
             /\ snap'.Primary = PtrP(pid)
             /\ pid \in DOMAIN snap'.Pmap
             /\ pid \notin shared'
             /\ Deref(snap', snap'.Primary).id = pid]_vars

\* a clone whose proxy has other flags than the same proxy of the original,
\* after the clone was staffed
C14_Witness ==
    /\ orig # Nil
    /\ lastOp = [name |-> "staffIC", ret |-> "nil"]
    /\ snap.Version > orig.Version
    /\ \E id \in DOMAIN orig.Pmap \cap DOMAIN snap.Pmap :
          snap.Pmap[id].flags # orig.Pmap[id].flags

\* C15: after a call of evictIC, whatever calls of _fillIC and evictIC came
\* before it, the number of proxies flagged as IC members is at most
\* DefaultICSize.
C15_ICWithinSize ==
    lastOp = [name |-> "evictIC", ret |-> "nil"] => ICCount(snap) <= DefaultICSize

\* C16: when the snapshot has at least DefaultICSize proxies, all electable,
\* a caller that keeps calling _fillIC, evictIC and staffIC reaches a snapshot
\* with exactly DefaultICSize IC members, and the number stays at that.
C16_ICConverges ==
    (Cardinality(DOMAIN snap.Pmap) >= DefaultICSize /\ AllElectable(snap))
        => <>[](ICCount(snap) = DefaultICSize)

\* two members too many were evicted, one call each, down to DefaultICSize
C16_Witness ==
    /\ Cardinality(DOMAIN snap.Pmap) >= DefaultICSize
    /\ AllElectable(snap)
    /\ lastOp = [name |-> "evictIC", ret |-> "nil"]
    /\ snap.Version = Cardinality(DOMAIN snap.Pmap) + 2
    /\ ICCount(snap) = DefaultICSize

\* C17: staffIC is idempotent: on a snapshot that staffIC has just left, with
\* the primary in the proxy map, another call of staffIC changes nothing (IC
\* members, node flags, primary, version).
C17_StaffICIdempotent ==
    (/\ lastOp = [name |-> "staffIC", ret |-> "nil"]
     /\ snap.Primary # Nil
     /\ Deref(snap, snap.Primary).id \in DOMAIN snap.Pmap)
        => staffIC(snap) = {snap}

\* C18: for snapshots A and B with no node id in common and no URL that two
\* of their nodes have under two ids, merge without override is
\* commutative in the members: A.merge(B, false) returns no error and leaves in
\* B the members of both, and so does B.merge(A, false) in A, in every order
\* in which the loops can visit the nodes.
C18_MergeCommutes ==
    [][(/\ lastOp.name = "putNode"
        /\ lastOp'.name = "merge"
        /\ Disjoint(orig, snap)
        /\ NoConflict(orig, snap))
          => /\ lastOp'.ret = "nil"
             /\ Members(snap') = Members(orig) \cup Members(snap)
             /\ \A r \in merge(snap, orig, FALSE) :
                   r.err = "nil" /\ Members(r.dst) = Members(snap')]_vars

\* A with a target and a proxy, merged into a B that had a proxy and a
\* target of its own and none of A's ids
C18_Witness ==
    /\ lastOp = [name |-> "merge", ret |-> "nil"]
    /\ IdsOf(orig) = {"a1", "a2"}
    /\ Members(snap) = {<<"a1", "target">>, <<"a2", "proxy">>,
                        <<"b1", "proxy">>, <<"c", "target">>}

\* C19: addTarget and addProxy of a node whose id is in the target map or in
\* the proxy map panic, whichever map holds the id and whatever the role of the
\* new node, and the panic comes before any write: a call that panics leaves
\* the maps, the version and the primary as they were, and a call that returns
\* has added one id that was in neither map and raised the version by one.
C19_DuplicateIdIsFatal ==
    /\ [](snap # Nil =>
            \A n \in SnapNodes :
               GetNode(snap, n.id) # Nil
                  => addTarget(snap, n) = Fatal /\ addProxy(snap, n) = Fatal)
    /\ [][lastOp'.name \in {"addTarget", "addProxy"}
            => IF lastOp'.ret = "panic"
               THEN snap' = snap /\ orig' = orig
               ELSE /\ IdsOf(snap) \subseteq IdsOf(snap')
                    /\ Cardinality(IdsOf(snap') \ IdsOf(snap)) = 1
                    /\ snap'.Version = snap.Version + 1]_vars

\* addTarget of a target with the id of the only node, the proxy p1, panicked
C19_Witness ==
    /\ lastOp = [name |-> "addTarget", ret |-> "panic"]
    /\ DOMAIN snap.Tmap = {}
    /\ DOMAIN snap.Pmap = {"p1"}

\* the snapshot that the one call addProxy(P1) has made of newSmap()
GenesisPlusP1 ==
    /\ snap # Nil
    /\ orig = Nil
    /\ snap.Version = 1
    /\ DOMAIN snap.Tmap = {}
    /\ DOMAIN snap.Pmap = {"p1"}

\* C20 as stated: after addProxy(P1) on the genesis snapshot the version is 1,
\* the primary is P1 and isValid() is true.
C20_GenesisAddPrimary ==
    (GenesisPlusP1 /\ lastOp = [name |-> "addProxy", ret |-> "nil"])
        => /\ snap.Version = 1
           /\ snap.Primary # Nil
           /\ Deref(snap, snap.Primary) = P1
           /\ isValid(snap)

\* C20 amended: addProxy(P1) on the genesis snapshot gives version 1 and the
\* proxy map {P1} and leaves Primary nil, so isValid() is false; once the
\* caller has assigned Primary = P1 the primary is P1 and isValid() is true,
\* the version still 1.
C20_GenesisAddThenAssign ==
    /\ addProxy(NewSmap, P1) = Smap(EmptyMap, [x \in {"p1"} |-> P1], Nil, 1, "")
    /\ (GenesisPlusP1 /\ lastOp = [name |-> "addProxy", ret |-> "nil"])
          => /\ snap.Pmap["p1"] = P1
             /\ snap.Primary = Nil
             /\ ~isValid(snap)
    /\ (GenesisPlusP1 /\ lastOp = [name |-> "Primary", ret |-> "nil"])
          => /\ Deref(snap, snap.Primary) = snap.Pmap["p1"]
             /\ isValid(snap)

\* the genesis snapshot with P1 added and made the primary
C20_Witness ==
    /\ GenesisPlusP1
    /\ lastOp = [name |-> "Primary", ret |-> "nil"]
    /\ snap.Pmap["p1"] = P1
    /\ isValid(snap)

\* C21 as stated: validateUUID returns the cluster-integrity error whenever
\* both snapshots have set (non-empty) uuids that differ, and no error
\* whenever a uuid is empty or the two are equal.
C21_ErrorIffSetAndDiffer ==
    (lastOp.name = "validateUUID" /\ orig # Nil /\ snap # Nil)
        => (lastOp.ret = "errSmapUUIDDiffer"
              <=> (orig.UUID # "" /\ snap.UUID # "" /\ orig.UUID # snap.UUID))

\* C21 amended: validateUUID returns the cluster-integrity error exactly when
\* both snapshots are there, the received one has a version other than 0,
\* both uuids are valid and they differ; in every other case, an empty or
\* malformed uuid and equal uuids among them, it returns no error.
C21_ErrorIffValidAndDiffer ==
    lastOp.name = "validateUUID"
        => /\ lastOp.ret \in {"nil", "errSmapUUIDDiffer"}
           /\ lastOp.ret = "errSmapUUIDDiffer"
                <=> (/\ orig # Nil /\ snap # Nil
                     /\ snap.Version # 0
                     /\ IsValidUUID(orig.UUID) /\ IsValidUUID(snap.UUID)
                     /\ orig.UUID # snap.UUID)

\* "cluster-A" against "cluster-B": the error; the scenario of the spec
C21_Witness ==
    /\ lastOp = [name |-> "validateUUID", ret |-> "errSmapUUIDDiffer"]
    /\ orig.UUID = "cluster-A"
    /\ snap.UUID = "cluster-B"

\* C22: putNode is an upsert that raises the version by exactly one, for the
\* insert of an absent id and for the replace of an id that is there under
\* the same role alike; no id leaves the maps.
C22_PutNodeBumpsOnce ==
    [][(lastOp'.name = "putNode" /\ lastOp'.ret = "nil")
         => /\ snap'.Version = snap.Version + 1
            /\ IdsOf(snap) \subseteq IdsOf(snap')]_vars

\* C23: once Reg of the first listener has returned, and until that listener
\* unregisters, the worker is running and every notify enqueues its version.
C23_NotifyAfterRegEnqueues ==
    /\ [](lpc["l1"] = "in" => running)
    /\ [][\A w \in Writers :
            (pc[w] = "notify" /\ pc'[w] # "notify" /\ lpc["l1"] = "in")
                => pc'[w] = "send"]_vars

\* C24: while no listener is registered (the last Unreg has returned and no Reg
\* has begun), no notify call goes on to enqueue a version.
C24_NoEnqueueWhileUnregistered ==
    [][\A w \in Writers :
         (pc[w] = "notify" /\ pc'[w] # "notify"
            /\ listeners = {} /\ \A l \in Listeners : lpc[l] = "out")
               => pc'[w] # "send"]_vars

\* C25: at most one run() goroutine is alive in any state, and one is alive
\* whenever a listener is registered.
C25_SingleWorkerAlive ==
    /\ Cardinality({k \in WorkerIDs : wpc[k] # "none"}) <= 1
    /\ listeners # {} => \E k \in WorkerIDs : wpc[k] # "none"

\* C26: the drain at a worker's start never consumes a stop sentinel.  The
\* start drain runs while the Reg that started the worker holds sls.mu, so a
\* sentinel it meets was posted by the Unreg that ended an earlier cycle.
C26_SentinelStaysInItsCycle ==
    [][\A k \in WorkerIDs :
         (wpc[k] = "drain_rcv" /\ wpc'[k] = "drain") => Head(postCh) # Sentinel]_vars

\* the file was read and decoded
ReadOK == file # Nil /\ file.via \in {"encode", "payload"}

\* the snapshot in the file has a primary, and the map of the primary's role
\* has a node of the primary's id
PrimaryPresent ==
    /\ file.bytes.jsp.Primary # Nil
    /\ LET p == file.bytes.jsp.Primary IN
       IF p.typ = "proxy" THEN p.id \in DOMAIN file.bytes.jsp.Pmap
       ELSE p.id \in DOMAIN file.bytes.jsp.Tmap

\* C27: load returns (false, nil) when the file is missing, (false, err) when
\* it cannot be read or decoded, (false, err) when the snapshot read has
\* version 0, no primary or a primary that is not in the map, and (true, nil)
\* in the one remaining case; and load leaves the published snapshot, the
\* queue and the file as they were.
C27_LoadOutcomes ==
    /\ [](lastOp.name = "load" =>
            /\ file = Nil => (~lastOp.loaded /\ lastOp.ret = "nil")
            /\ (file # Nil /\ ~ReadOK) => (~lastOp.loaded /\ lastOp.ret # "nil")
            /\ (ReadOK /\ (file.bytes.jsp.Version = 0 \/ ~PrimaryPresent))
                  => (~lastOp.loaded /\ lastOp.ret # "nil")
            /\ (ReadOK /\ file.bytes.jsp.Version # 0 /\ PrimaryPresent)
                  => (lastOp.loaded /\ lastOp.ret = "nil"))
    /\ [][smap' = smap /\ postCh' = postCh /\ commits' = commits /\ file' = file]_vars

\* C27, its case: load has refused a readable file of version 0 whose primary
\* is in the map, with a snapshot published before
C27_Witness ==
    /\ lastOp.name = "load" /\ ~lastOp.loaded /\ lastOp.ret = "errInvalid"
    /\ ReadOK /\ file.bytes.jsp.Version = 0 /\ PrimaryPresent
    /\ smap = CandA(1)

\* C28: however long the worker stays in a callback, a writer that has
\* stored its snapshot can post the version at once and go on to release
\* the mutex: put never waits for the worker.
C28_PutNeverWaitsForCallbacks ==
    \A w \in Writers :
        (pc[w] = "send" /\ \E k \in WorkerIDs : wpc[k] = "cb")
            => Len(postCh) < PostChCap

\* C29: get() can be taken in every state, the mutex held or not; the
\* snapshot a reader got is valid and of a committed version no newer than
\* the published one; and the reference a reader holds changes by a get()
\* only, never by a step of a writer.
C29_ReadsLockFreeAndAtomic ==
    /\ [](ENABLED Get)
    /\ [](lastOp.name = "get" =>
            /\ validate(snap) = "nil"
            /\ snap.Version <= smap.Version
            /\ \E i \in 1..Len(commits) : commits[i].ver = snap.Version)
    /\ [][snap' # snap => snap' = smap]_vars

\* C29, its case: a reader holds the snapshot it got before a swap while a
\* writer, having published a newer one, still holds the mutex
C29_Witness ==
    /\ lastOp.name = "get" /\ snap.Version < smap.Version
    /\ \E w \in Writers : mu = w /\ pc[w] \in {"notify", "send", "s_unlock", "m_post"}

\* C30: the version of the published snapshot never decreases from one state
\* to the next, whatever the interleaving of the writers, and every commit
\* by synchronize is of a version greater than zero.
C30_VersionNeverDecreases ==
    /\ [][smap'.Version >= smap.Version]_vars
    /\ [](\A i \in 1..Len(commits) : commits[i].by = "sync" => commits[i].ver > 0)

\* C30, its case: synchronize and modify have both committed, the version has
\* grown, and a synchronize call of an older version has been turned away
C30_Witness ==
    /\ \E i, j \in 1..Len(commits) : commits[i].by = "sync" /\ commits[j].by = "modify"
    /\ smap.Version > 1
    /\ \E w \in Writers : op[w] = "sync" /\ pc[w] = "done" /\ err[w] = "errDowngrade"

\* the node objects of a snapshot
NodesOf(m) == {m.Tmap[x] : x \in DOMAIN m.Tmap} \cup {m.Pmap[x] : x \in DOMAIN m.Pmap}

\* C31: a merge without override that returns the duplicate-node error has
\* stopped at a node of the source that dst holds the URL of under another id
\* and has not inserted it; what it inserted before stays, every entry dst
\* had is as it was, nothing but members of the source has come in, no proxy
\* has come in unless the loop over the targets was over, and dst's uuid is
\* the one it had.
C31_MergeFailsFastNoRollback ==
    [][(lastOp'.name = "merge" /\ lastOp'.ret = "errDuplicate")
         => /\ snap'.UUID = snap.UUID
            /\ \A id \in IdsOf(snap) : GetNode(snap', id) = GetNode(snap, id)
            /\ Members(snap) \subseteq Members(snap')
            /\ Members(snap') \subseteq Members(snap) \cup Members(orig)
            /\ \E n \in NodesOf(orig) :
                  /\ IsDuplicate(snap', n) # {}
                  /\ n.id \notin IdsOf(snap') \ IdsOf(snap)
            /\ (\E p \in DOMAIN orig.Pmap : p \in IdsOf(snap') \ IdsOf(snap))
                  => \A t \in DOMAIN orig.Tmap : t \in IdsOf(snap')]_vars

\* C31, its case: the source {a1, a2} with a uuid, merged into a dst without
\* a uuid that held b2 alone (version 1): a1 went in, a2 met b2's URL, dst
\* has a1 and b2 and still no uuid
C31_Witness ==
    /\ lastOp = [name |-> "merge", ret |-> "errDuplicate"]
    /\ orig.UUID = "u1" /\ Members(orig) = {<<"a1", "target">>, <<"a2", "proxy">>}
    /\ snap.UUID = "" /\ snap.Version = 1
    /\ Members(snap) = {<<"a1", "target">>, <<"b2", "target">>}

\* what C32 says of a merge step that returned no error: the source's nodes
\* of new ids are in under their roles, the entries of ids dst had are as
\* they were, the count returned is the number of ids that came in, and the
\* uuid is the source's exactly when dst had none and the source has one
UnionSkippingExisting ==
    /\ \A n \in NodesOf(orig) :
          IF n.id \in IdsOf(snap)
          THEN /\ GetNode(snap', n.id) = GetNode(snap, n.id)
               /\ (n.id \in DOMAIN snap'.Tmap) = (n.id \in DOMAIN snap.Tmap)
               /\ n.id \in IdsOf(snap')
          ELSE <<n.id, n.typ>> \in Members(snap')
    /\ \E r \in merge(orig, snap, lastOp'.name = "mergeOverride") :
          /\ r.dst = snap' /\ r.err = "nil"
          /\ r.added = Cardinality(IdsOf(snap') \ IdsOf(snap))
    /\ snap'.UUID = IF snap.UUID = "" /\ orig.UUID # "" THEN orig.UUID ELSE snap.UUID

\* C32 as stated: every merge that returns no error, with or without
\* override, is a union that skips the ids dst has.
C32_SuccessfulMergeIsUnion ==
    [][(lastOp'.name \in {"merge", "mergeOverride"} /\ lastOp'.ret = "nil")
          => UnionSkippingExisting]_vars

\* the URL of node id is held under another id by a node of the source
SharesURL(id) == \E n \in NodesOf(orig) : n.id # id /\ URLOf(n.id) = URLOf(id)

\* C32: a merge without override that returns no error is a union that skips
\* the ids dst has: the source's nodes of new ids are inserted under their
\* roles, the entries of ids dst had are untouched, the count is the number
\* of inserted nodes and the uuid is adopted exactly when dst had none and
\* the source has one.  A merge with override does the same for every id
\* whose URL no node of the source holds under another id, and adopts the
\* uuid by the same rule.
C32_MergeIsUnionButForEvictions ==
    /\ [][(lastOp'.name = "merge" /\ lastOp'.ret = "nil") => UnionSkippingExisting]_vars
    /\ [][lastOp'.name = "mergeOverride"
            => /\ lastOp'.ret = "nil"
               /\ \A n \in NodesOf(orig) :
                     ~SharesURL(n.id)
                        => IF n.id \in IdsOf(snap)
                           THEN GetNode(snap', n.id) = GetNode(snap, n.id)
                           ELSE <<n.id, n.typ>> \in Members(snap')
               /\ \A id \in IdsOf(snap) :
                     ~SharesURL(id) => GetNode(snap', id) = GetNode(snap, id)
               /\ snap'.UUID = IF snap.UUID = "" /\ orig.UUID # "" THEN orig.UUID
                               ELSE snap.UUID]_vars

\* C32, its case: the source {a1, b1} with a uuid merged into a dst without
\* a uuid that held c as a target and b1: a1 came in, b1 and c stayed
C32_Witness ==
    /\ lastOp = [name |-> "merge", ret |-> "nil"]
    /\ orig.UUID = "u1" /\ Members(orig) = {<<"a1", "target">>, <<"b1", "proxy">>}
    /\ snap.UUID = "u1" /\ snap.Version = 2
    /\ Members(snap) = {<<"a1", "target">>, <<"b1", "proxy">>, <<"c", "target">>}

\* C33: in every snapshot no node has the IC flag together with a
\* maintenance or decommission flag.
C33_NoICMemberUnderMaintenance ==
    \A n \in NodesOf(snap) :
        ~(SnodeIC \in n.flags /\ n.flags \cap NodeFlagsMaintDecomm # {})

\* C34: when synchronize returns for a valid candidate that holds the local
\* node, accepted, not newer or a downgrade, the local node's flags are the
\* flags the candidate records for it; no step of a call whose candidate does
\* not hold the local node changes the flags.
C34_SelfFlagsFollowCandidate ==
    [][\A w \in Writers :
         /\ (op[w] = "sync" /\ pc[w] \in {"s_lock", "s_unlock"} /\ pc'[w] = "done"
               /\ GetNode(newSmap[w], SelfID) # Nil)
              => siFlags' = GetNode(newSmap[w], SelfID).flags
         /\ (op[w] = "sync" /\ pc'[w] # pc[w] /\ newSmap[w] # Nil
               /\ GetNode(newSmap[w], SelfID) = Nil)
              => siFlags' = siFlags]_vars

\* C34, its case: a downgrade has been turned away and the local node has
\* the maintenance flag of the refused candidate, which the current snapshot
\* does not record
C34_Witness ==
    /\ \E w \in Writers : op[w] = "sync" /\ pc[w] = "done" /\ err[w] = "errDowngrade"
    /\ siFlags = {SnodeMaint}
    /\ smap = CandA(MaxVer)

\* C35: the primary of the published snapshot is not nil and the proxy map
\* of the snapshot holds a node of its id.
C35_PublishedPrimaryIsAProxy ==
    smap # Nil =>
        /\ smap.Primary # Nil
        /\ Deref(smap, smap.Primary).id \in DOMAIN smap.Pmap

\* C36: no node id is in both the target map and the proxy map of a
\* snapshot.
C36_NoIdInBothMaps ==
    /\ (DOMAIN snap.Tmap) \cap (DOMAIN snap.Pmap) = {}
    /\ (DOMAIN orig.Tmap) \cap (DOMAIN orig.Pmap) = {}

\* C36, its case: a merge with override into a snapshot that holds c as a
\* proxy, from a snapshot that holds c as a target: c is still a proxy only,
\* and a2 of the source has taken the place of b2
C36_Witness ==
    /\ lastOp = [name |-> "mergeOverride", ret |-> "nil"]
    /\ "c" \in DOMAIN orig.Tmap /\ "a2" \in DOMAIN orig.Pmap
    /\ "c" \in DOMAIN snap.Pmap /\ "a2" \in DOMAIN snap.Pmap
    /\ snap.Version = 3

\* the ids of the IC members of a snapshot
ICMembers(m) == {id \in DOMAIN m.Pmap : SnodeIC \in m.Pmap[id].flags}

\* C37: staffIC leaves the primary an IC member and the primary reference on
\* the proxy map's entry of the primary's id; evictIC leaves the primary's IC
\* flag alone and takes the flag from one member at most; every proxy _fillIC
\* makes a member is electable.
C37_StaffKeepsPrimaryInIC ==
    /\ [][(lastOp'.name = "staffIC" /\ lastOp'.ret = "nil")
            => /\ snap'.Primary = PtrP(Deref(snap, snap.Primary).id)
               /\ Deref(snap, snap.Primary).id \in ICMembers(snap')]_vars
    /\ [][(lastOp'.name = "evictIC" /\ lastOp'.ret = "nil")
            => /\ Cardinality(ICMembers(snap) \ ICMembers(snap')) <= 1
               /\ ICMembers(snap') \subseteq ICMembers(snap)
               /\ Deref(snap, snap.Primary).id \in ICMembers(snap)
                     => Deref(snap, snap.Primary).id \in ICMembers(snap')]_vars
    /\ [][lastOp'.name = "_fillIC"
            => \A id \in ICMembers(snap') \ ICMembers(snap) :
                  SnodeNonElectable \notin snap'.Pmap[id].flags]_vars

\* C37, its case: staffIC has run on a snapshot of MaxProxies proxies and
\* has changed flags: the primary is a member and the reference is the map's
\* entry
C37_Witness ==
    /\ lastOp = [name |-> "staffIC", ret |-> "nil"]
    /\ Cardinality(DOMAIN snap.Pmap) = MaxProxies
    /\ snap.Primary = PtrP("p1")
    /\ "p1" \in ICMembers(snap)
    /\ snap.Version > MaxProxies

\* C38: addTarget, addProxy, delTarget, delProxy, setNodeFlags and
\* clearNodeFlags each raise the version by exactly one when they return,
\* whether or not the flags changed; delTarget and delProxy of an id the map
\* does not hold panic, and a call that panics leaves the snapshot as it was.
C38_OneChangeOneVersion ==
    /\ [][lastOp'.name \in {"addTarget", "addProxy", "delTarget", "delProxy",
                            "setNodeFlags", "clearNodeFlags"}
            => IF lastOp'.ret = "panic" THEN snap' = snap
               ELSE snap'.Version = snap.Version + 1]_vars
    /\ [](\A id \in SnapIds :
            /\ (delTarget(snap, id) = Fatal) = (id \notin DOMAIN snap.Tmap)
            /\ (delProxy(snap, id) = Fatal) = (id \notin DOMAIN snap.Pmap))

\* C38, its case: a proxy was added and the IC flag, which it had, was set
\* on it twice more: three calls, version 3
C38_Witness ==
    /\ lastOp = [name |-> "setNodeFlags", ret |-> "nil"]
    /\ snap.Tmap = EmptyMap
    /\ snap.Pmap = [x \in {"p1"} |-> P1]
    /\ snap.Version = 3

\* C39: an Unreg that holds the listeners' lock and has its sentinel to send
\* returns in the end.
C39_UnregReturns == (lpc["l1"] = "unreg") ~> (lpc["l1"] = "out")

\* the flags of the nodes of a snapshot, by map and id
FlagsOf(m) ==
    [T |-> [x \in DOMAIN m.Tmap |-> m.Tmap[x].flags],
     P |-> [x \in DOMAIN m.Pmap |-> m.Pmap[x].flags]]

\* C40: after orig.merge(snap, ...), a call of setNodeFlags, clearNodeFlags or
\* staffIC on snap leaves the flags of every node of orig as they were.
C40_MergedFromStaysImmutable ==
    [][lastOp'.name \in {"setNodeFlags", "clearNodeFlags", "staffIC"}
          => FlagsOf(orig') = FlagsOf(orig)]_vars

====
